---------------------------- MODULE Spec2Model ----------------------------
(***************************************************************************)
(* lifeOS: the task resolution and streak engine.                          *)
(*                                                                         *)
(* Representation.                                                         *)
(*   - An ISO date string "YYYY-MM-DD" is the number of the calendar day   *)
(*     it names, counted from "2024-01-01" (day 0, a Monday).  Comparing   *)
(*     two well-formed ISO date strings as strings is comparing their day  *)
(*     numbers.                                                            *)
(*   - A JavaScript Date object is its instant, in whole hours since       *)
(*     2024-01-01T00:00Z.  new Date("YYYY-MM-DD") is UTC midnight of the   *)
(*     day; getFullYear/getMonth/getDate/getDay read the instant in the    *)
(*     local time of the runtime's zone, and setDate moves it by local     *)
(*     days, which are 23 or 25 hours long where the zone's offset changes.*)
(*     The zones carry the rules of the years 1950 to 2100.                *)
(*   - A task instance id "<taskId>_<date>" is the pair <<taskId, date>>.  *)
(*   - undefined is NoValue (a value), NoTime (a timestamp), NoDate (an    *)
(*     end date), 0 (a day of month) and Undefined (a task instance).      *)
(***************************************************************************)
EXTENDS Integers, Sequences, FiniteSets, TLC

VARIABLES
    tasks,      \* the 'tasks' object store: a set of Task records, keyed by id
    store,      \* the 'taskInstances' object store: a set of TaskInstance records
    dailyRecords,   \* the 'dailyRecords' object store, keyed by date
    financeEntries, \* the 'financeEntries' object store, keyed by id
    calls,      \* per caller: the call in flight between its await points
    now,        \* the clock read by new Date(), in its ticks: it never goes back
    nCalls,     \* calls started so far
    hist,       \* the most recent finished calls, oldest first, with what they returned
    settings,   \* the 'settings' object store, keyed by currentLocation
    settingsSignal, \* SettingsRepository.settingsSignal: the settings in memory
    displayed,  \* DayDetailComponent.tasks: the task views the day page shows
    zone        \* the time zone of the runtime the application runs in

vars == <<tasks, store, dailyRecords, financeEntries, calls, now, nCalls, hist,
          settings, settingsSignal, displayed, zone>>

\* The state of the settings repository and of the day page, and the runtime's zone.
appVars == <<settings, settingsSignal, displayed, zone>>

-----------------------------------------------------------------------------
(* Bounds *)

\* The last day (counted from 2024-01-01) calls are made for.
MaxDay == 2
MaxResolveDay == 1
MaxOccurDay == 13
MaxCalendarDay == 1
\* The number of calls one run makes.
MaxCalls == 3
\* The number of calls a run of calls made one after the other makes.
MaxSeqCalls == 4
\* A horizon, in days, the next and previous occurrence are asked with.
MaxHorizon == 60
\* The number of calls of the settings repository in flight at once.
MaxSettingsCalls == 2
\* The number of clicks on tasks of the day page.
MaxToggles == 2

-----------------------------------------------------------------------------
(* Dates: src/app/utils/date.utils.ts and the private formatDate copies. *)

\* No date: a number that names no day the program is asked about (day -1 is
\* "2023-12-31", which local dates west of UTC reach).
NoDate == -100000
NoTime == -1
NoValue == "undefined"

\* Days since 1970-01-01 of a day counted from 2024-01-01.
DaysSince1970(day) == day + 19723

\* The day (counted from 2024-01-01) of the civil date year-month-day, month in 1..12.
DayFromCivil(year, month, day) ==
    LET y   == IF month <= 2 THEN year - 1 ELSE year
        era == y \div 400
        yoe == y - era * 400
        mp  == IF month > 2 THEN month - 3 ELSE month + 9
        doy == ((153 * mp + 2) \div 5) + day - 1
        doe == yoe * 365 + (yoe \div 4) - (yoe \div 100) + doy
    IN  era * 146097 + doe - 719468 - 19723

\* The civil calendar: <<year, month (1..12), day of month>> of a day, computed in
\* stages: the era of 400 years, the day and year of the era, the day of the year
\* counted from March 1, and the month counted from March.
CivilOfMonth(era, yoe, doy, mp) ==
    <<yoe + era * 400 + (IF mp < 10 THEN 0 ELSE 1),
      IF mp < 10 THEN mp + 3 ELSE mp - 9,
      doy - ((153 * mp + 2) \div 5) + 1>>

CivilOfDayOfYear(era, yoe, doy) == CivilOfMonth(era, yoe, doy, (5 * doy + 2) \div 153)

CivilOfYearOfEra(era, doe, yoe) ==
    CivilOfDayOfYear(era, yoe, doe - (365 * yoe + (yoe \div 4) - (yoe \div 100)))

CivilOfDayOfEra(era, doe) ==
    CivilOfYearOfEra(era, doe,
        (doe - (doe \div 1460) + (doe \div 36524) - (doe \div 146096)) \div 365)

CivilOfEra(z, era) == CivilOfDayOfEra(era, z - era * 146097)

CivilOfShifted(z) == CivilOfEra(z, z \div 146097)

CivilFromDay(day) == CivilOfShifted(DaysSince1970(day) + 719468)

\* A change of the offset falls on the nth Sunday of a month (nth 0: the last Sunday
\* of the month before).
Sunday(month, nth) == [month |-> month, nth |-> nth]

\* The rules of the years from..to: the Sundays on which daylight-saving time begins
\* and ends, if it does in these years.
Era(from, to, begins, ends) == [from |-> from, to |-> to, begins |-> begins, ends |-> ends]

\* A time zone of the runtime: its offsets from UTC, in hours, in standard and in
\* daylight-saving time; whether its daylight-saving time spans New Year (south of the
\* equator); the hours at which daylight-saving time begins and ends, counted from UTC
\* midnight of the Sunday of the change; and the rules the runtime applies to the
\* years 1950 to 2100, the latest first.
UTC ==
    [name |-> "UTC", standard |-> 0, daylight |-> 0, south |-> FALSE,
     beginHour |-> 0, endHour |-> 0,
     eras |-> << Era(1950, 2100, {}, {}) >>]

\* The changes are at 01:00 UTC; none before 1980.
EuropeBerlin ==
    [name |-> "Europe/Berlin", standard |-> 1, daylight |-> 2, south |-> FALSE,
     beginHour |-> 1, endHour |-> 1,
     eras |-> << Era(1996, 2100, {Sunday(4, 0)}, {Sunday(11, 0)}),
                 Era(1981, 1995, {Sunday(4, 0)}, {Sunday(10, 0)}),
                 Era(1980, 1980, {Sunday(4, 1)}, {Sunday(10, 0)}),
                 Era(1950, 1979, {}, {}) >>]

\* The changes are at 02:00 standard time, which is 16:00 UTC of the Saturday; none
\* before the spring of 1971.
AustraliaSydney ==
    [name |-> "Australia/Sydney", standard |-> 10, daylight |-> 11, south |-> TRUE,
     beginHour |-> -8, endHour |-> -8,
     eras |-> << Era(2008, 2100, {Sunday(10, 1)}, {Sunday(4, 1)}),
                 Era(2007, 2007, {Sunday(11, 0)}, {Sunday(4, 0)}),
                 Era(2006, 2006, {Sunday(11, 0)}, {Sunday(4, 1)}),
                 Era(2001, 2005, {Sunday(11, 0)}, {Sunday(4, 0)}),
                 Era(2000, 2000, {Sunday(9, 0)}, {Sunday(4, 0)}),
                 Era(1996, 1999, {Sunday(11, 0)}, {Sunday(4, 0)}),
                 Era(1990, 1995, {Sunday(11, 0)}, {Sunday(3, 1)}),
                 Era(1987, 1989, {Sunday(11, 0)}, {Sunday(3, 3)}),
                 Era(1986, 1986, {Sunday(10, 3)}, {Sunday(3, 3)}),
                 Era(1983, 1985, {Sunday(11, 0)}, {Sunday(3, 1)}),
                 Era(1982, 1982, {Sunday(11, 0)}, {Sunday(4, 1)}),
                 Era(1973, 1981, {Sunday(11, 0)}, {Sunday(3, 1)}),
                 Era(1972, 1972, {Sunday(11, 0)}, {Sunday(3, 0)}),
                 Era(1971, 1971, {Sunday(11, 0)}, {}),
                 Era(1950, 1970, {}, {}) >>]

\* The changes are at 02:00 local time, which is 07:00 UTC in standard and 06:00 UTC
\* in daylight-saving time.
AmericaNewYork ==
    [name |-> "America/New_York", standard |-> -5, daylight |-> -4, south |-> FALSE,
     beginHour |-> 7, endHour |-> 6,
     eras |-> << Era(2007, 2100, {Sunday(3, 2)}, {Sunday(11, 1)}),
                 Era(1987, 2006, {Sunday(4, 1)}, {Sunday(11, 0)}),
                 Era(1976, 1986, {Sunday(5, 0)}, {Sunday(11, 0)}),
                 Era(1975, 1975, {Sunday(3, 0)}, {Sunday(11, 0)}),
                 Era(1974, 1974, {Sunday(1, 1)}, {Sunday(11, 0)}),
                 Era(1955, 1973, {Sunday(5, 0)}, {Sunday(11, 0)}),
                 Era(1950, 1954, {Sunday(5, 0)}, {Sunday(10, 0)}) >>]

\* The zones the runtime is run in: UTC, two zones east of it (one of each
\* hemisphere) and one west of it.
Zones == {UTC, EuropeBerlin, AustraliaSydney, AmericaNewYork}

\* The day (counted from 2024-01-01) of the first of March of a year.
FirstOfMarch(year) ==
    365 * (year - 2024) + (year \div 4) - (year \div 100) + (year \div 400) - 431

\* The first Sunday on or after the first of a month of a year.  The days of January
\* and February are counted from the first of March of the year before.
FirstSundayOf(year, month) ==
    LET first == FirstOfMarch(IF month < 3 THEN year - 1 ELSE year)
                    + ((153 * ((month + 9) % 12) + 2) \div 5)
    IN  first + ((3 - DaysSince1970(first)) % 7)

\* Those of the years around 2024 are computed once and looked up.
TableYears == 2016 .. 2032

FirstSundays == [year \in TableYears |-> [month \in 1..12 |-> FirstSundayOf(year, month)]]

\* The instant of a change in a year: the rule's Sunday is nth - 1 weeks after the
\* first Sunday of the rule's month.
ChangeAt(year, rule, hour) ==
    ((IF year \in TableYears THEN FirstSundays[year][rule.month]
      ELSE FirstSundayOf(year, rule.month)) + 7 * (rule.nth - 1)) * 24 + hour

\* The year an instant falls in, but for the day next to New Year, which may count to
\* the year before or after: no zone changes its offset within five days of New Year.
YearNear(ts) == 2024 + (ts \div 8766)

\* The rules of a zone in force in a year (1950 to 2100).
EraOf(z, year) ==
    z.eras[CHOOSE i \in DOMAIN z.eras : z.eras[i].from <= year /\ year <= z.eras[i].to]

\* The changes of a zone in a year, by the rules of the year: the instants at which
\* daylight-saving time begins, and those at which it ends.
ChangesOf(z, year) ==
    [change \in {"begins", "ends"} |->
        {ChangeAt(year, rule, IF change = "begins" THEN z.beginHour ELSE z.endHour) :
            rule \in EraOf(z, year)[change]}]

\* Whether daylight-saving time holds at the instant ts, given the changes of the year:
\* between its beginning and its end, and south of the equator from New Year to its
\* end and from its beginning to New Year.
IsDaylight(ts, changes, south) ==
    IF south
    THEN (\E e \in changes.ends : ts < e) \/ (\E b \in changes.begins : ts >= b)
    ELSE \E b \in changes.begins, e \in changes.ends : b <= ts /\ ts < e

\* The UTC offset of zone z that holds at the instant ts.
OffsetAt(z, ts) ==
    IF z.standard = z.daylight THEN z.standard
    ELSE IF \E changes \in {ChangesOf(z, YearNear(ts))} : IsDaylight(ts, changes, z.south)
         THEN z.daylight ELSE z.standard

\* new Date("YYYY-MM-DD"): a date-only ISO string parses as UTC midnight.
ParseDate(dateStr) == dateStr * 24

\* LocalTime(t): the wall clock of the runtime's zone at an instant, in hours.
LocalTime(ts) == ts + OffsetAt(zone, ts)

\* UTC(t): the instant at which the wall clock shows `local`.  A wall-clock time that
\* occurs twice (the clock was set back) is its earlier instant; one that is skipped
\* (the clock was set forward) is read with the offset that held before the change.
UtcOfLocal(local) ==
    LET offsets == {zone.standard, zone.daylight}
        instants == {local - o : o \in {p \in offsets : OffsetAt(zone, local - p) = p}}
        first == CHOOSE t \in {local - o : o \in offsets} :
                    \A u \in {local - o : o \in offsets} : t <= u
    IN  IF instants # {} THEN CHOOSE t \in instants : \A u \in instants : t <= u
        ELSE local - OffsetAt(zone, first)

\* The local calendar day an instant falls on.
LocalDay(ts) == LocalTime(ts) \div 24

\* Date.prototype.getFullYear / getMonth (0-based) / getDate / getDay, local time.
GetFullYear(ts) == CivilFromDay(LocalDay(ts))[1]
GetMonth(ts) == CivilFromDay(LocalDay(ts))[2] - 1
GetDate(ts) == CivilFromDay(LocalDay(ts))[3]
GetDay(ts) == (DaysSince1970(LocalDay(ts)) + 4) % 7

\* formatDate: the local year, month and day written as "YYYY-MM-DD".
FormatDate(ts) == LocalDay(ts)

\* date.setDate(date.getDate() + n): the same wall-clock time, n local days on.
SetDatePlus(ts, n) == UtcOfLocal(LocalTime(ts) + 24 * n)

\* new Date(year, monthIndex, day): local midnight; a monthIndex outside 0..11 carries
\* into the year, and day counts from the first of the month (0 is the day before it).
NewDate(year, monthIndex, day) ==
    UtcOfLocal((DayFromCivil(year + (monthIndex \div 12), (monthIndex % 12) + 1, 1)
                  + day - 1) * 24)

-----------------------------------------------------------------------------
(* Recurrence engine: src/app/services/recurrence-engine.service.ts *)

isSameDate(date1, date2) ==
    /\ GetFullYear(date1) = GetFullYear(date2)
    /\ GetMonth(date1) = GetMonth(date2)
    /\ GetDate(date1) = GetDate(date2)

checkWeeklyRecurrence(date, rule) ==
    IF rule.daysOfWeek = {} THEN FALSE
    ELSE GetDay(date) \in rule.daysOfWeek

checkMonthlyRecurrence(date, rule) ==
    IF rule.dayOfMonth = 0 THEN FALSE
    ELSE GetDate(date) = rule.dayOfMonth

checkCustomRecurrence(date, rule) ==
    LET weeklyMatch == IF rule.daysOfWeek # {}
                       THEN checkWeeklyRecurrence(date, rule) ELSE TRUE
        monthlyMatch == IF rule.dayOfMonth # 0
                        THEN checkMonthlyRecurrence(date, rule) ELSE TRUE
    IN  weeklyMatch /\ monthlyMatch

doesTaskOccurOnDate(task, date) ==
    LET rule == task.recurrence
        targetDate == ParseDate(date)
        startDate == ParseDate(rule.startDate)
    IN  IF targetDate < startDate THEN FALSE
        ELSE IF rule.endDate # NoDate /\ targetDate > ParseDate(rule.endDate) THEN FALSE
        ELSE CASE rule.type = "once" -> isSameDate(targetDate, startDate)
               [] rule.type = "daily" -> TRUE
               [] rule.type = "weekly" -> checkWeeklyRecurrence(targetDate, rule)
               [] rule.type = "monthly" -> checkMonthlyRecurrence(targetDate, rule)
               [] rule.type = "custom" -> checkCustomRecurrence(targetDate, rule)
               [] OTHER -> FALSE

\* The horizon of getNextOccurrence / getPreviousOccurrence, in days.
DefaultHorizon == 365

\* A number of iterations within which a loop that moves a Date a day at a time from
\* one instant to another has ended: a local day lasts 23 hours at least, and the wall
\* clock is never more than an hour off its count of 24-hour days.
LoopBound(from, to) == IF to >= from THEN (to - from) \div 24 + 2 ELSE 0

\* getOccurrenceDates, one iteration of the while loop (lines 127-133) on the loop's
\* variables current and dates; nothing once the loop has ended.
OccurrenceDatesDay(task, o, end) ==
    IF ~(o.current <= end) THEN o
    ELSE LET dateStr == FormatDate(o.current)
         IN  [current |-> SetDatePlus(o.current, 1),
              dates |-> IF doesTaskOccurOnDate(task, dateStr)
                        THEN Append(o.dates, dateStr) ELSE o.dates]

RECURSIVE OccurrenceDatesDays(_, _, _, _)
\* n iterations of the loop, taken as a first and a second half.
OccurrenceDatesDays(task, o, end, n) ==
    IF n <= 0 \/ ~(o.current <= end) THEN o
    ELSE IF n = 1 THEN OccurrenceDatesDay(task, o, end)
    ELSE CHOOSE x \in {OccurrenceDatesDays(task, g, end, n - n \div 2) :
                          g \in {OccurrenceDatesDays(task, o, end, n \div 2)}} : TRUE

getOccurrenceDates(task, startDate, endDate) ==
    OccurrenceDatesDays(task, [current |-> ParseDate(startDate), dates |-> <<>>],
                        ParseDate(endDate),
                        LoopBound(ParseDate(startDate), ParseDate(endDate))).dates

\* getNextOccurrence / getPreviousOccurrence, one iteration of the for loop on the Date
\* `start` and the date returned, if any; step is 1 or -1.
OccurrenceScanDay(task, s, step) ==
    IF s.found # NoDate THEN s
    ELSE IF doesTaskOccurOnDate(task, FormatDate(s.start))
    THEN [s EXCEPT !.found = FormatDate(s.start)]
    ELSE [s EXCEPT !.start = SetDatePlus(s.start, step)]

RECURSIVE OccurrenceScanDays(_, _, _, _)
\* n iterations of the loop, taken as a first and a second half.
OccurrenceScanDays(task, s, step, n) ==
    IF n <= 0 \/ s.found # NoDate THEN s
    ELSE IF n = 1 THEN OccurrenceScanDay(task, s, step)
    ELSE CHOOSE x \in {OccurrenceScanDays(task, g, step, n - n \div 2) :
                          g \in {OccurrenceScanDays(task, s, step, n \div 2)}} : TRUE

getNextOccurrence(task, afterDate, maxDaysAhead) ==
    OccurrenceScanDays(task, [start |-> SetDatePlus(ParseDate(afterDate), 1),
                              found |-> NoDate],
                       1, maxDaysAhead).found

getPreviousOccurrence(task, beforeDate, maxDaysBack) ==
    OccurrenceScanDays(task, [start |-> SetDatePlus(ParseDate(beforeDate), -1),
                              found |-> NoDate],
                       -1, maxDaysBack).found

-----------------------------------------------------------------------------
(* Storage: src/app/storage/storage.service.ts (IndexedDB object stores) and *)
(* src/app/repositories/task-instance.repository.ts                          *)

Undefined ==
    [id |-> <<"", NoDate>>, taskId |-> "", date |-> NoDate,
     status |-> "undefined", value |-> NoValue, completedAt |-> NoTime]

\* A put that adds the record under a fresh key instead of replacing by id.
putKeepBoth(st, value) == st \cup {value}

\* A put that deletes the stored record when it is handed a pending one.
putDropPending(st, value) ==
    IF "status" \in DOMAIN value /\ value.status = "pending"
    THEN {r \in st : r.id # value.id}
    ELSE {r \in st : r.id # value.id} \cup {value}

\* StorageService.put on a store created with { keyPath: 'id' }: the record
\* replaces the one stored under the same id, if any.
put(st, value) == {r \in st : r.id # value.id} \cup {value}

\* StorageService.delete on a store with key path 'id': the record stored under the
\* key, if any, is removed.
delete(st, key) == {r \in st : r.id # key}

\* The object stores of the database (storage.service.ts, the upgrade callback).
StoreNames == {"tasks", "taskInstances", "dailyRecords", "financeEntries", "settings"}

\* TaskInstanceRepository.getByDate / getByTaskId: the index lookups.
getByDate(st, date) == {i \in st : i.date = date}
getByTaskId(st, taskId) == {i \in st : i.taskId = taskId}

\* TaskInstanceRepository.getByTaskAndDate: instances.find(i => i.taskId === taskId).
\* find returns the first match in primary-key order; a store with one record per
\* id and ids "<taskId>_<date>" holds at most one match.
getByTaskAndDate(st, taskId, date) ==
    LET found == {i \in getByDate(st, date) : i.taskId = taskId}
    IN  IF found = {} THEN Undefined ELSE CHOOSE i \in found : TRUE

\* TaskInstanceRepository.getByDateRange: string comparison of ISO dates.
getByDateRange(st, startDate, endDate) ==
    {i \in st : i.date >= startDate /\ i.date <= endDate}

\* TaskRepository.getById / getActiveTasks.
NoTask ==
    [id |-> "", title |-> "", streakEnabled |-> FALSE, isArchived |-> FALSE,
     priority |-> [kind |-> "undefined", label |-> "", num |-> 0],
     recurrence |-> [type |-> "none", daysOfWeek |-> {}, dayOfMonth |-> 0,
                     startDate |-> 0, endDate |-> NoDate],
     locationCondition |-> [present |-> FALSE, allowedLocations |-> {},
                            excludedLocations |-> {}]]

getById(ts, id) ==
    IF \E t \in ts : t.id = id THEN CHOOSE t \in ts : t.id = id ELSE NoTask

\* The task ids of the model in IndexedDB key order (ascending strings).
KeyOrder == <<"t1", "t2", "t3">>

\* StorageService.getAll('tasks'): the records in primary-key order.
getAll(ts) ==
    LET F[i \in 0..Len(KeyOrder)] ==
            IF i = 0 THEN <<>>
            ELSE IF getById(ts, KeyOrder[i]) # NoTask
                 THEN Append(F[i - 1], getById(ts, KeyOrder[i]))
                 ELSE F[i - 1]
    IN  F[Len(KeyOrder)]

NotArchived(task) == ~task.isArchived

\* getActiveTasks without its filter.
getActiveTasksUnfiltered(ts) == getAll(ts)

getActiveTasks(ts) == SelectSeq(getAll(ts), NotArchived)

-----------------------------------------------------------------------------
(* Settings: src/app/repositories/settings.repository.ts; the 'settings'   *)
(* object store has the key path 'currentLocation' (storage.service.ts).   *)

\* get() resolving to undefined.
NoSettings == [none |-> TRUE]

DEFAULT_SETTINGS ==
    [currentLocation |-> "home", financeEnabled |-> FALSE,
     defaultReminderTime |-> "09:00", morningAlarmEnabled |-> FALSE]

\* StorageService.put('settings', value): the record with value's key is replaced.
putSettings(st, value) ==
    {r \in st : r.currentLocation # value.currentLocation} \cup {value}

\* StorageService.get('settings', key): the record or undefined.
getSettings(st, key) ==
    IF \E r \in st : r.currentLocation = key
    THEN CHOOSE r \in st : r.currentLocation = key
    ELSE NoSettings

\* { ...current, ...settings }: the fields of the patch replace those of current.
mergeSettings(current, patch) ==
    [f \in DOMAIN current |-> IF f \in DOMAIN patch THEN patch[f] ELSE current[f]]

\* The application once the settings repository has loaded on an empty database and
\* before the day page has loaded its tasks.
AppStarted ==
    /\ settings = {DEFAULT_SETTINGS}
    /\ settingsSignal = DEFAULT_SETTINGS
    /\ displayed = <<>>

-----------------------------------------------------------------------------
(* Instance resolution, the mutations:                                     *)
(* src/app/services/instance-resolution.service.ts                         *)

generateInstanceId(taskId, date) == <<taskId, date>>

\* completeTask storing its value argument even when none is given.
completeInstanceAlwaysValue(existingInstance, taskId, date, value, time) ==
    LET instance == IF existingInstance # Undefined THEN existingInstance
                    ELSE [id |-> generateInstanceId(taskId, date), taskId |-> taskId,
                          date |-> date, status |-> "completed",
                          completedAt |-> time, value |-> value]
    IN  [instance EXCEPT !.status = "completed",
                         !.completedAt = time,
                         !.value = value]

\* completeTask leaving an already-completed record's timestamp as it was.
completeInstanceNoRefresh(existingInstance, taskId, date, value, time) ==
    LET instance == IF existingInstance # Undefined THEN existingInstance
                    ELSE [id |-> <<taskId, date>>, taskId |-> taskId,
                          date |-> date, status |-> "completed",
                          completedAt |-> time, value |-> value]
    IN  [instance EXCEPT !.status = "completed",
                         !.completedAt = IF instance.status = "completed" THEN @ ELSE time,
                         !.value = IF value # NoValue THEN value ELSE @]

\* completeTask, lines 142-155: the instance handed to upsert.
completeInstance(existingInstance, taskId, date, value, time) ==
    LET instance == IF existingInstance # Undefined THEN existingInstance
                    ELSE [id |-> generateInstanceId(taskId, date), taskId |-> taskId,
                          date |-> date, status |-> "completed",
                          completedAt |-> time, value |-> value]
    IN  [instance EXCEPT !.status = "completed",
                         !.completedAt = time,
                         !.value = IF value # NoValue THEN value ELSE @]

\* skipTask writing a pending record.
skipInstanceAsPending(existingInstance, taskId, date) ==
    LET instance == IF existingInstance # Undefined THEN existingInstance
                    ELSE [id |-> generateInstanceId(taskId, date), taskId |-> taskId,
                          date |-> date, status |-> "pending",
                          completedAt |-> NoTime, value |-> NoValue]
    IN  [instance EXCEPT !.status = "pending"]

\* skipTask, lines 166-173.
skipInstance(existingInstance, taskId, date) ==
    LET instance == IF existingInstance # Undefined THEN existingInstance
                    ELSE [id |-> generateInstanceId(taskId, date), taskId |-> taskId,
                          date |-> date, status |-> "skipped",
                          completedAt |-> NoTime, value |-> NoValue]
    IN  [instance EXCEPT !.status = "skipped"]

\* resetTask forgetting to clear the value.
resetInstanceKeepValue(existingInstance) ==
    [existingInstance EXCEPT !.status = "pending", !.completedAt = NoTime]

\* resetTask, lines 184-186.
resetInstance(existingInstance) ==
    [existingInstance EXCEPT !.status = "pending",
                             !.completedAt = NoTime,
                             !.value = NoValue]

IdleFrame ==
    [pc |-> "idle", op |-> "none", taskId |-> "", date |-> NoDate, value |-> NoValue,
     at |-> NoTime, existing |-> Undefined, instance |-> Undefined]

\* completeTask up to its second await: the read of the existing instance has
\* resolved and the instance to store is built; the put is still to run.
CompleteTaskRead(c, taskId, date, value) ==
    /\ calls[c].pc = "idle"
    /\ LET existingInstance == getByTaskAndDate(store, taskId, date)
       IN  calls' = [calls EXCEPT ![c] =
                [pc |-> "upsert", op |-> "completeTask", taskId |-> taskId,
                 date |-> date, value |-> value, at |-> now,
                 existing |-> existingInstance,
                 instance |-> completeInstance(existingInstance, taskId, date, value, now)]]
    /\ UNCHANGED <<appVars, tasks, store, dailyRecords, financeEntries>>

SkipTaskRead(c, taskId, date) ==
    /\ calls[c].pc = "idle"
    /\ LET existingInstance == getByTaskAndDate(store, taskId, date)
       IN  calls' = [calls EXCEPT ![c] =
                [pc |-> "upsert", op |-> "skipTask", taskId |-> taskId,
                 date |-> date, value |-> NoValue, at |-> now,
                 existing |-> existingInstance,
                 instance |-> skipInstance(existingInstance, taskId, date)]]
    /\ UNCHANGED <<appVars, tasks, store, dailyRecords, financeEntries>>

\* resetTask writing a pending record when none exists.
ResetTaskReadCreating(c, taskId, date) ==
    /\ calls[c].pc = "idle"
    /\ LET existingInstance == getByTaskAndDate(store, taskId, date)
       IN  calls' = [calls EXCEPT ![c] =
                [pc |-> "upsert", op |-> "resetTask", taskId |-> taskId,
                 date |-> date, value |-> NoValue, at |-> now,
                 existing |-> existingInstance,
                 instance |-> IF existingInstance # Undefined
                              THEN resetInstance(existingInstance)
                              ELSE [id |-> generateInstanceId(taskId, date),
                                    taskId |-> taskId, date |-> date,
                                    status |-> "pending", completedAt |-> NoTime,
                                    value |-> NoValue]]]
    /\ UNCHANGED <<appVars, tasks, store, dailyRecords, financeEntries>>

\* resetTask up to its second await, or to its return when no record exists.
ResetTaskRead(c, taskId, date) ==
    /\ calls[c].pc = "idle"
    /\ LET existingInstance == getByTaskAndDate(store, taskId, date)
       IN  calls' = [calls EXCEPT ![c] =
                [pc |-> IF existingInstance # Undefined THEN "upsert" ELSE "return",
                 op |-> "resetTask", taskId |-> taskId,
                 date |-> date, value |-> NoValue, at |-> now,
                 existing |-> existingInstance,
                 instance |-> IF existingInstance # Undefined
                              THEN resetInstance(existingInstance) ELSE Undefined]]
    /\ UNCHANGED <<appVars, tasks, store, dailyRecords, financeEntries>>

\* await this.instanceRepo.upsert(instance): the put runs and the call returns.
Upsert(c) ==
    /\ calls[c].pc = "upsert"
    /\ store' = put(store, calls[c].instance)
    /\ calls' = [calls EXCEPT ![c] = IdleFrame]
    /\ UNCHANGED <<appVars, tasks, dailyRecords, financeEntries>>

\* resetTask returns without writing: no record existed.
Return(c) ==
    /\ calls[c].pc = "return"
    /\ calls' = [calls EXCEPT ![c] = IdleFrame]
    /\ UNCHANGED <<appVars, tasks, store, dailyRecords, financeEntries>>
-----------------------------------------------------------------------------
(* Location filter (LocationFilterService, in streak-engine.service.ts) and *)
(* instance resolution, the queries.                                        *)

\* isLocationAllowed letting the allow-list decide before the deny-list.
isLocationAllowedAllowFirst(task, currentLocation) ==
    LET condition == task.locationCondition
    IN  IF ~condition.present THEN TRUE
        ELSE IF condition.allowedLocations # {}
             THEN currentLocation \in condition.allowedLocations
        ELSE currentLocation \notin condition.excludedLocations

isLocationAllowed(task, currentLocation) ==
    LET condition == task.locationCondition
    IN  IF ~condition.present THEN TRUE
        ELSE IF condition.excludedLocations # {}
                /\ currentLocation \in condition.excludedLocations THEN FALSE
        ELSE IF condition.allowedLocations # {}
             THEN currentLocation \in condition.allowedLocations
        ELSE TRUE

\* getAllowedLocations, line 255: the locations of LocationType.
allLocations == {"home", "office", "bengaluru", "native", "outside"}

\* getAllowedLocations.  The arrays are kept as the sets of their elements.
getAllowedLocations(task) ==
    LET condition == task.locationCondition
    IN  IF ~condition.present THEN allLocations
        ELSE IF condition.allowedLocations # {}
             THEN IF condition.excludedLocations # {}
                  THEN {loc \in condition.allowedLocations :
                            loc \notin condition.excludedLocations}
                  ELSE condition.allowedLocations
        ELSE IF condition.excludedLocations # {}
             THEN {loc \in allLocations : loc \notin condition.excludedLocations}
        ELSE allLocations

filterTasksByLocation(taskSeq, currentLocation) ==
    LET Allowed(task) == isLocationAllowed(task, currentLocation)
    IN  SelectSeq(taskSeq, Allowed)

\* currentStreak: undefined.
NoStreak == -1

\* instanceMap.get(task.id) over the instances of one date.
InstanceMapGet(existingInstances, taskId) ==
    IF \E i \in existingInstances : i.taskId = taskId
    THEN CHOOSE i \in existingInstances : i.taskId = taskId
    ELSE Undefined

\* sortTaskViews, lines 202-208: priorityOrder[a.task.priority || 'low'].  A number
\* other than 0 is no key of priorityOrder: the lookup is undefined.
PriorityRank(priority) ==
    LET key == IF priority.kind = "undefined" \/ (priority.kind = "number" /\ priority.num = 0)
               THEN "low"
               ELSE IF priority.kind = "label" THEN priority.label ELSE "none"
    IN  CASE key = "high" -> [defined |-> TRUE, rank |-> 0]
          [] key = "medium" -> [defined |-> TRUE, rank |-> 1]
          [] key = "low" -> [defined |-> TRUE, rank |-> 2]
          [] OTHER -> [defined |-> FALSE, rank |-> 0]

\* The titles of the model in the order of the default (root) collation, which puts
\* "apple" before "Banana" where the code-unit order puts "Banana" first.
CollationOrder == <<"apple", "Banana", "cherry">>

CollationIndex(title) == CHOOSE i \in 1..Len(CollationOrder) : CollationOrder[i] = title

Sign(n) == IF n < 0 THEN -1 ELSE IF n > 0 THEN 1 ELSE 0

\* String.prototype.localeCompare.
localeCompare(a, b) == Sign(CollationIndex(a) - CollationIndex(b))

\* The comparator of sortTaskViews: a number, or NaN when a rank is undefined.
compareViews(a, b) ==
    LET aRank == PriorityRank(a.task.priority)
        bRank == PriorityRank(b.task.priority)
    IN  IF ~aRank.defined \/ ~bRank.defined THEN [nan |-> TRUE, v |-> 0]
        ELSE IF aRank.rank - bRank.rank # 0
        THEN [nan |-> FALSE, v |-> aRank.rank - bRank.rank]
        ELSE [nan |-> FALSE, v |-> localeCompare(a.task.title, b.task.title)]

\* Array.prototype.sort, SortCompare: a NaN from the comparator counts as +0.
SortCompare(x, y) == IF compareViews(x, y).nan THEN 0 ELSE compareViews(x, y).v

\* Whether the comparator is a consistent comparator for the elements (ECMA-262).
ConsistentComparator(S) ==
    \A a \in S, b \in S, c \in S :
        /\ SortCompare(a, a) = 0
        /\ SortCompare(a, b) < 0 => SortCompare(b, a) > 0
        /\ (SortCompare(a, b) = 0 /\ SortCompare(b, c) = 0) => SortCompare(a, c) = 0
        /\ (SortCompare(a, b) < 0 /\ SortCompare(b, c) < 0) => SortCompare(a, c) < 0
        /\ (SortCompare(a, b) > 0 /\ SortCompare(b, c) > 0) => SortCompare(a, c) > 0

RECURSIVE InsertStable(_, _)
\* x put behind the last element of the sorted sequence it does not come before.
InsertStable(sorted, x) ==
    IF sorted = <<>> THEN <<x>>
    ELSE IF SortCompare(x, sorted[Len(sorted)]) < 0
         THEN Append(InsertStable(SubSeq(sorted, 1, Len(sorted) - 1), x),
                     sorted[Len(sorted)])
         ELSE Append(sorted, x)

\* The stable sort every engine yields under a consistent comparator.
StableSort(views) ==
    LET F[i \in 0..Len(views)] ==
            IF i = 0 THEN <<>> ELSE InsertStable(F[i - 1], views[i])
    IN  F[Len(views)]

Orderings(views) ==
    LET n == Len(views)
    IN  {[i \in 1..n |-> views[p[i]]] :
            p \in {q \in [1..n -> 1..n] : \A i, j \in 1..n : q[i] = q[j] => i = j}}

Range(seq) == {seq[i] : i \in DOMAIN seq}

\* sortTaskViews: the orders views.sort(comparator) can return.  Under a consistent
\* comparator it is the stable sort; otherwise the order is implementation-defined.
sortTaskViews(views) ==
    IF ConsistentComparator(Range(views)) THEN {StableSort(views)}
    ELSE Orderings(views)

\* resolveTaskForDate: null.
NoView == [none |-> TRUE]
-----------------------------------------------------------------------------
(* Calendar aggregation: CalendarAggregationService (src/unnamed/part_001)  *)
(* and the two stores it reads besides tasks and task instances.  A daily   *)
(* record is kept as [date], a finance entry as [id, date]: no operation of *)
(* the model reads their other fields.                                      *)

\* DailyRecordRepository.upsert: put on a store with keyPath 'date'.
putDailyRecord(records, record) == {r \in records : r.date # record.date} \cup {record}

\* FinanceRepository.create: put on a store with keyPath 'id'.
putFinanceEntry(entries, entry) == {x \in entries : x.id # entry.id} \cup {entry}

\* DailyRecordRepository / FinanceRepository getByDateRange.
getItemsByDateRange(items, startDate, endDate) ==
    {r \in items : r.date >= startDate /\ r.date <= endDate}

\* groupByDate(items).get(dateStr) || [].
GroupGet(items, dateStr) == {i \in items : i.date = dateStr}

\* generateIcons showing the partial glyph also when nothing is completed.
generateIconsNoneAsPartial(completed, total, hasNote, hasFinance, streakBroken) ==
    (IF total > 0
     THEN IF completed = total THEN <<"all-done">> ELSE <<"partial">>
     ELSE <<>>)
    \o (IF hasNote THEN <<"note">> ELSE <<>>)
    \o (IF hasFinance THEN <<"finance">> ELSE <<>>)
    \o (IF streakBroken THEN <<"warning">> ELSE <<>>)

\* The icons '✓', '◐', '○', '📝', '💰', '⚠️' are written "all-done", "partial",
\* "none-done", "note", "finance", "warning".
generateIcons(completed, total, hasNote, hasFinance, streakBroken) ==
    (IF total > 0
     THEN IF completed = total THEN <<"all-done">>
          ELSE IF completed > 0 THEN <<"partial">>
          ELSE <<"none-done">>
     ELSE <<>>)
    \o (IF hasNote THEN <<"note">> ELSE <<>>)
    \o (IF hasFinance THEN <<"finance">> ELSE <<>>)
    \o (IF streakBroken THEN <<"warning">> ELSE <<>>)
-----------------------------------------------------------------------------
(* The queries of the services, await by await.  A call in flight is its    *)
(* frame: its arguments, its local variables, and the await it stands at    *)
(* (pc), the store read it waits for.  A definition below takes the frame   *)
(* at an await and what the read resolved with, and gives the frame at the  *)
(* next await, or the frame of the finished call (pc "return") with what it *)
(* returns.  A call made by another call (calculateStreak by                *)
(* resolveTasksForDate, isStreakBroken by buildDayView) runs in the frame   *)
(* of the call that made it: `inner` holds its arguments.                   *)
(*   streak-engine.service.ts: calculateStreak, isStreakBroken,             *)
(*     getLongestStreak, getStreakStats                                     *)
(*   instance-resolution.service.ts: resolveTasksForDate, resolveTaskForDate*)
(*   src/unnamed/part_001: buildCalendarView, buildDayView,                 *)
(*     buildCalendarViewForRange                                            *)

Max(a, b) == IF a >= b THEN a ELSE b

NoInner == [taskId |-> "", date |-> NoDate]
NoWalk == [currentDate |-> 0, streak |-> 0, done |-> TRUE]
NoCount == [tasksCompleted |-> 0, tasksTotal |-> 0, streakBroken |-> FALSE]

\* The frame of the call op(taskId, date, location) as it is entered.
QueryFrame(op, taskId, date, location) ==
    [pc |-> "call", op |-> op, taskId |-> taskId, date |-> date, endDate |-> date,
     year |-> 0, month |-> 0, location |-> location,
     task |-> NoTask, existing |-> Undefined,
     allTasks |-> <<>>, tasksLeft |-> <<>>, instances |-> {}, records |-> {},
     finance |-> {}, datesLeft |-> <<>>, count |-> NoCount, views |-> <<>>,
     inner |-> NoInner, streakTask |-> NoTask, walk |-> NoWalk,
     currentStreak |-> 0, longestStreak |-> 0, result |-> 0]

\* The call returns result.
Returned(f, result) == [f EXCEPT !.pc = "return", !.result = result]

(* instance-resolution.service.ts, the loop of resolveTasksForDate *)

\* Lines 57-62 and 113-118: the stored instance, or a pending one made up.
InstanceOrPending(existingInstance, taskId, date) ==
    IF existingInstance # Undefined THEN existingInstance
    ELSE [id |-> generateInstanceId(taskId, date), taskId |-> taskId, date |-> date,
          status |-> "pending", completedAt |-> NoTime, value |-> NoValue]

\* Lines 71-75 and 126-130: { ...instance, task, currentStreak }.
View(task, date, existingInstance, currentStreak) ==
    LET instance == InstanceOrPending(existingInstance, task.id, date)
    IN  [id |-> instance.id, taskId |-> instance.taskId, date |-> instance.date,
         status |-> instance.status, completedAt |-> instance.completedAt,
         value |-> instance.value, task |-> task, currentStreak |-> currentStreak]

\* calculateStreak is called (streak-engine line 26) and awaits getById.
CallCalculateStreak(f, taskId, upToDate) ==
    [f EXCEPT !.inner = [taskId |-> taskId, date |-> upToDate],
              !.pc = "calculateStreak.getById"]

RECURSIVE ResolveLoop(_)
\* resolveTasksForDate, the for loop (lines 53-78) up to its next await, the call of
\* calculateStreak for a streak task, or to the return of the views (line 81; the sort
\* is applied where the call returns).
ResolveLoop(f) ==
    IF f.tasksLeft = <<>> THEN Returned(f, f.views)
    ELSE LET task == Head(f.tasksLeft)
         IN  IF task.streakEnabled THEN CallCalculateStreak(f, task.id, f.date)
             ELSE ResolveLoop([f EXCEPT
                      !.views = Append(@, View(task, f.date,
                                    InstanceMapGet(f.instances, task.id), NoStreak)),
                      !.tasksLeft = Tail(@)])

\* resolveTasksForDate is called (line 31) and awaits getActiveTasks.  loadTasks of the
\* day page is this call with the list it returns assigned to the page.
CallResolveTasksForDate(op, date, currentLocation) ==
    [QueryFrame(op, "", date, currentLocation)
        EXCEPT !.pc = "resolveTasksForDate.getActiveTasks"]

\* Lines 33-47: getActiveTasks has resolved; the tasks are filtered by recurrence and
\* location, and getByDate is awaited.
ResolveGotTasks(f, allTasks) ==
    LET Occurs(task) == doesTaskOccurOnDate(task, f.date)
    IN  [f EXCEPT !.tasksLeft = filterTasksByLocation(SelectSeq(allTasks, Occurs),
                                                      f.location),
                  !.pc = "resolveTasksForDate.getByDate"]

\* Lines 47-53: getByDate has resolved, and the loop is entered.
ResolveGotInstances(f, existingInstances) ==
    ResolveLoop([f EXCEPT !.instances = existingInstances])

(* streak-engine.service.ts: getLongestStreak and getStreakStats *)

\* Array.prototype.sort() on ISO date strings: ascending.  The dates of the records
\* of one task differ, and the i-th of them has i of them up to it.
SortDates(S) ==
    [i \in 1..Cardinality(S) |-> CHOOSE d \in S : Cardinality({e \in S : e <= d}) = i]

\* The successor test of the longest-streak loop taking consecutive calendar days.
IsNextOccurrenceCalendarDay(task, lastOccurrenceDate, date) ==
    date = lastOccurrenceDate + 1

\* getLongestStreak, lines 124-125: nextOccurrence === date.
IsNextOccurrence(task, lastOccurrenceDate, date) ==
    getNextOccurrence(task, lastOccurrenceDate, DefaultHorizon) = date

\* getLongestStreak, one iteration of the for loop (lines 113-134) on the loop's
\* variables, i being the place of the date in completedDates, counted from 1.
LongestStreakDay(task, completedDates, s) ==
    LET date == completedDates[s.i]
    IN  IF ~doesTaskOccurOnDate(task, date) THEN [s EXCEPT !.i = @ + 1]
        ELSE IF s.lastOccurrenceDate = NoDate
        THEN [s EXCEPT !.i = @ + 1, !.currentStreak = 1, !.lastOccurrenceDate = date]
        ELSE IF IsNextOccurrence(task, s.lastOccurrenceDate, date)
        THEN [s EXCEPT !.i = @ + 1, !.currentStreak = @ + 1,
                       !.lastOccurrenceDate = date]
        ELSE [i |-> s.i + 1, longestStreak |-> Max(s.longestStreak, s.currentStreak),
              currentStreak |-> 1, lastOccurrenceDate |-> date]

RECURSIVE LongestStreakDays(_, _, _, _)
\* n iterations of the loop, taken as a first and a second half.
LongestStreakDays(task, completedDates, s, n) ==
    IF n <= 0 \/ s.i > Len(completedDates) THEN s
    ELSE IF n = 1 THEN LongestStreakDay(task, completedDates, s)
    ELSE CHOOSE x \in {LongestStreakDays(task, completedDates, g, n - n \div 2) :
                          g \in {LongestStreakDays(task, completedDates, s, n \div 2)}} :
            TRUE

\* getLongestStreak, the for loop (lines 113-134) and the final Math.max.
LongestStreakLoop(task, completedDates, i, longestStreak, currentStreak, lastOccurrenceDate) ==
    LET s == LongestStreakDays(task, completedDates,
                 [i |-> i, longestStreak |-> longestStreak,
                  currentStreak |-> currentStreak,
                  lastOccurrenceDate |-> lastOccurrenceDate],
                 Len(completedDates))
    IN  Max(s.longestStreak, s.currentStreak)

\* getLongestStreak is called (line 93) and awaits getById.
CallGetLongestStreak(f, taskId) ==
    [f EXCEPT !.inner = [taskId |-> taskId, date |-> NoDate],
              !.pc = "getLongestStreak.getById"]

\* getLongestStreak returns: to its caller, or into line 165 of getStreakStats, which
\* computes the occurrence dates and awaits getByTaskId (lines 168-172).
LongestReturned(f, longest) ==
    LET g == [f EXCEPT !.inner = NoInner, !.streakTask = NoTask]
    IN  IF f.op = "getLongestStreak" THEN Returned(g, longest)
        ELSE [g EXCEPT !.longestStreak = longest, !.pc = "getStreakStats.getByTaskId"]

\* Lines 94-99: getById has resolved.
LongestGotTask(f, task) ==
    IF task = NoTask \/ ~task.streakEnabled THEN LongestReturned(f, 0)
    ELSE [f EXCEPT !.streakTask = task, !.pc = "getLongestStreak.getByTaskId"]

\* Lines 99-137: getByTaskId has resolved.
LongestGotInstances(f, instances) ==
    LET completedDates ==
            SortDates({i.date : i \in {j \in instances : j.status = "completed"}})
    IN  LongestReturned(f, IF Len(completedDates) = 0 THEN 0
                           ELSE LongestStreakLoop(f.streakTask, completedDates,
                                                  1, 0, 0, NoDate))

\* getStreakStats is called (line 146) and awaits getById.
CallGetStreakStats(taskId, upToDate) ==
    [QueryFrame("getStreakStats", taskId, upToDate, "")
        EXCEPT !.pc = "getStreakStats.getById"]

\* getStreakStats, lines 153-164: getById has resolved.
StatsGotTask(f, task) ==
    IF task = NoTask
    THEN Returned(f, [currentStreak |-> 0, longestStreak |-> 0, totalCompletions |-> 0,
                      totalOccurrences |-> 0, completionRate |-> <<0, 1>>])
    ELSE CallCalculateStreak([f EXCEPT !.task = task], f.taskId, f.date)

\* getStreakStats, lines 168-183: getByTaskId has resolved.  completionRate, the double
\* (totalCompletions / totalOccurrences) * 100, is kept as the exact fraction
\* <<numerator, denominator>>.
StatsGotInstances(f, instances) ==
    LET occurrenceDates ==
            getOccurrenceDates(f.task, f.task.recurrence.startDate, f.date)
        totalOccurrences == Len(occurrenceDates)
        totalCompletions == Cardinality({i \in instances : i.status = "completed"})
    IN  Returned(f, [currentStreak |-> f.currentStreak,
                     longestStreak |-> f.longestStreak,
                     totalCompletions |-> totalCompletions,
                     totalOccurrences |-> totalOccurrences,
                     completionRate |-> IF totalOccurrences > 0
                                        THEN <<totalCompletions * 100, totalOccurrences>>
                                        ELSE <<0, 1>>])

(* streak-engine.service.ts: calculateStreak *)

\* calculateStreak returns: to its caller, into line 165 of getStreakStats (which calls
\* getLongestStreak), into line 126 of resolveTaskForDate, or into line 68 of
\* resolveTasksForDate, where the view is pushed and the loop goes on.
StreakReturned(f, streak) ==
    LET g == [f EXCEPT !.inner = NoInner, !.streakTask = NoTask, !.walk = NoWalk]
    IN  CASE f.op = "calculateStreak" -> Returned(g, streak)
          [] f.op = "getStreakStats" ->
                CallGetLongestStreak([g EXCEPT !.currentStreak = streak], f.taskId)
          [] f.op = "resolveTaskForDate" ->
                Returned(g, View(f.task, f.date, f.existing, streak))
          [] OTHER ->
                ResolveLoop([g EXCEPT
                    !.views = Append(@, View(Head(f.tasksLeft), f.date,
                                  InstanceMapGet(f.instances, Head(f.tasksLeft).id),
                                  streak)),
                    !.tasksLeft = Tail(@)])

\* Whether the while loop (lines 37-58) awaits getByTaskAndDate in its next iteration.
StreakWalkAwaits(task, w, startDate) ==
    /\ ~w.done
    /\ w.currentDate >= startDate
    /\ doesTaskOccurOnDate(task, FormatDate(w.currentDate))

\* One iteration of the while loop on the loop's variables, `instance` being what its
\* await (line 45) resolves with; done once the loop has ended.
StreakWalkDay(task, w, startDate, instance) ==
    IF w.done \/ ~(w.currentDate >= startDate) THEN [w EXCEPT !.done = TRUE]
    ELSE IF doesTaskOccurOnDate(task, FormatDate(w.currentDate))
    THEN IF instance # Undefined /\ instance.status = "completed"
         THEN [currentDate |-> SetDatePlus(w.currentDate, -1), streak |-> w.streak + 1,
               done |-> FALSE]
         ELSE [w EXCEPT !.done = TRUE]
    ELSE [w EXCEPT !.currentDate = SetDatePlus(w.currentDate, -1)]

RECURSIVE StreakPassDays(_, _, _, _)
\* Up to n iterations of the loop that await nothing, taken as a first and a second
\* half: the walk stops where an iteration awaits or the loop has ended.
StreakPassDays(task, w, startDate, n) ==
    IF n <= 0 \/ w.done \/ StreakWalkAwaits(task, w, startDate) THEN w
    ELSE IF n = 1 THEN StreakWalkDay(task, w, startDate, Undefined)
    ELSE CHOOSE x \in {StreakPassDays(task, g, startDate, n - n \div 2) :
                          g \in {StreakPassDays(task, w, startDate, n \div 2)}} : TRUE

\* The loop up to its next await of getByTaskAndDate, or to the return (line 60).
StreakLoop(f) ==
    LET startDate == ParseDate(f.streakTask.recurrence.startDate)
        w == StreakPassDays(f.streakTask, f.walk, startDate,
                            LoopBound(startDate, f.walk.currentDate))
    IN  IF StreakWalkAwaits(f.streakTask, w, startDate)
        THEN [f EXCEPT !.walk = w, !.pc = "calculateStreak.getByTaskAndDate"]
        ELSE StreakReturned(f, w.streak)

\* Lines 27-35: getById has resolved.
StreakGotTask(f, task) ==
    IF task = NoTask \/ ~task.streakEnabled THEN StreakReturned(f, 0)
    ELSE StreakLoop([f EXCEPT !.streakTask = task,
                              !.walk = [currentDate |-> ParseDate(f.inner.date),
                                        streak |-> 0, done |-> FALSE]])

\* Lines 45-57: getByTaskAndDate has resolved for the day of the walk.
StreakGotInstance(f, instance) ==
    StreakLoop([f EXCEPT !.walk = StreakWalkDay(f.streakTask, f.walk,
                                      ParseDate(f.streakTask.recurrence.startDate),
                                      instance)])

(* instance-resolution.service.ts: resolveTaskForDate *)

\* resolveTaskForDate is called (line 91) and awaits getById.
CallResolveTaskForDate(taskId, date, currentLocation) ==
    [QueryFrame("resolveTaskForDate", taskId, date, currentLocation)
        EXCEPT !.pc = "resolveTaskForDate.getById"]

\* resolveTaskForDate without the check of the archived flag.
ResolveTaskGotTaskArchivedToo(f, task) ==
    IF task = NoTask THEN Returned(f, NoView)
    ELSE IF ~doesTaskOccurOnDate(task, f.date) THEN Returned(f, NoView)
    ELSE IF ~isLocationAllowed(task, f.location) THEN Returned(f, NoView)
    ELSE [f EXCEPT !.task = task, !.pc = "resolveTaskForDate.getByTaskAndDate"]

\* Lines 96-112: getById has resolved.
ResolveTaskGotTask(f, task) ==
    IF task = NoTask \/ task.isArchived THEN Returned(f, NoView)
    ELSE IF ~doesTaskOccurOnDate(task, f.date) THEN Returned(f, NoView)
    ELSE IF ~isLocationAllowed(task, f.location) THEN Returned(f, NoView)
    ELSE [f EXCEPT !.task = task, !.pc = "resolveTaskForDate.getByTaskAndDate"]

\* Lines 112-130: getByTaskAndDate has resolved.
ResolveTaskGotInstance(f, existingInstance) ==
    IF f.task.streakEnabled
    THEN CallCalculateStreak([f EXCEPT !.existing = existingInstance], f.task.id, f.date)
    ELSE Returned(f, View(f.task, f.date, existingInstance, NoStreak))

(* CalendarAggregationService (src/unnamed/part_001) *)

RECURSIVE DayLoop(_)
\* buildDayView, the for loop (lines 125-137) over the tasks of the day up to its next
\* await, the call of isStreakBroken (which awaits getById), or to the end of the loop,
\* where the day's view is complete and buildDayView returns.
DayLoop(f) ==
    IF f.tasksLeft = <<>> THEN [f EXCEPT !.pc = "buildDayView"]
    ELSE LET task == Head(f.tasksLeft)
             date == Head(f.datesLeft)
             instance == InstanceMapGet(GroupGet(f.instances, date), task.id)
         IN  IF instance # Undefined /\ instance.status = "completed"
             THEN DayLoop([f EXCEPT !.count.tasksCompleted = @ + 1,
                                    !.tasksLeft = Tail(@)])
             ELSE IF task.streakEnabled
             THEN [f EXCEPT !.inner = [taskId |-> task.id, date |-> date],
                            !.pc = "isStreakBroken.getById"]
             ELSE DayLoop([f EXCEPT !.tasksLeft = Tail(@)])

\* The loop over the days (part_001 lines 75-89 and 227-242) at the head of an
\* iteration: the views are returned when no day is left; otherwise buildDayView is
\* called for the next day (lines 106-123) and runs up to its first await.
CalendarLoop(f) ==
    IF f.datesLeft = <<>> THEN Returned(f, f.views)
    ELSE LET date == Head(f.datesLeft)
             Occurs(task) == doesTaskOccurOnDate(task, date)
             locationFilteredTasks ==
                 filterTasksByLocation(SelectSeq(f.allTasks, Occurs), f.location)
         IN  DayLoop([f EXCEPT !.tasksLeft = locationFilteredTasks,
                               !.count = [tasksCompleted |-> 0,
                                          tasksTotal |-> Len(locationFilteredTasks),
                                          streakBroken |-> FALSE]])

\* buildDayView has returned (lines 139-156): the view of the day is pushed and the
\* loop over the days goes on.
DayViewReturned(f) ==
    LET date == Head(f.datesLeft)
        hasRecord == \E r \in f.records : r.date = date
        hasFinance == GroupGet(f.finance, date) # {}
    IN  CalendarLoop([f EXCEPT
            !.views = Append(@,
                [date |-> date, tasksCompleted |-> f.count.tasksCompleted,
                 tasksTotal |-> f.count.tasksTotal, hasNote |-> hasRecord,
                 hasFinanceEntry |-> hasFinance, streakBroken |-> f.count.streakBroken,
                 icons |-> generateIcons(f.count.tasksCompleted, f.count.tasksTotal,
                                         hasRecord, hasFinance, f.count.streakBroken)]),
            !.datesLeft = Tail(@),
            !.count = NoCount])

\* isStreakBroken is called (streak-engine line 69) and awaits getById.
CallIsStreakBroken(f, taskId, date) ==
    [f EXCEPT !.inner = [taskId |-> taskId, date |-> date],
              !.pc = "isStreakBroken.getById"]

\* isStreakBroken returns: to its caller, or into line 132 of buildDayView, whose loop
\* goes on with the next task.
BrokenReturned(f, isBreak) ==
    LET g == [f EXCEPT !.inner = NoInner]
    IN  IF f.op = "isStreakBroken" THEN Returned(g, isBreak)
        ELSE DayLoop([g EXCEPT !.count.streakBroken = @ \/ isBreak,
                               !.tasksLeft = Tail(@)])

\* isStreakBroken without the check that the task occurs on the date.
BrokenGotTaskAnyDay(f, task) ==
    IF task = NoTask \/ ~task.streakEnabled THEN BrokenReturned(f, FALSE)
    ELSE [f EXCEPT !.pc = "isStreakBroken.getByTaskAndDate"]

\* isStreakBroken, lines 70-82: getById has resolved.
BrokenGotTask(f, task) ==
    IF task = NoTask \/ ~task.streakEnabled THEN BrokenReturned(f, FALSE)
    ELSE IF ~doesTaskOccurOnDate(task, f.inner.date) THEN BrokenReturned(f, FALSE)
    ELSE [f EXCEPT !.pc = "isStreakBroken.getByTaskAndDate"]

\* isStreakBroken taking a skipped instance for one that keeps the streak.
BrokenGotInstanceUnlessSkipped(f, instance) ==
    BrokenReturned(f, instance = Undefined
                      \/ instance.status \notin {"completed", "skipped"})

\* isStreakBroken, lines 82-85: getByTaskAndDate has resolved.
BrokenGotInstance(f, instance) ==
    BrokenReturned(f, instance = Undefined \/ instance.status # "completed")

\* buildCalendarViewForRange, the while loop (lines 226-242): one iteration on the Date
\* `current` and the date strings of the days passed so far.
RangeDay(r, end) ==
    IF ~(r.current <= end) THEN r
    ELSE [current |-> SetDatePlus(r.current, 1),
          dates |-> Append(r.dates, FormatDate(r.current))]

RECURSIVE RangeDays(_, _, _)
\* n iterations of the loop, taken as a first and a second half.
RangeDays(r, end, n) ==
    IF n <= 0 \/ ~(r.current <= end) THEN r
    ELSE IF n = 1 THEN RangeDay(r, end)
    ELSE CHOOSE x \in {RangeDays(g, end, n - n \div 2) :
                          g \in {RangeDays(r, end, n \div 2)}} : TRUE

\* The days the while loop builds a view for, in its order.
RangeDates(startDate, endDate) ==
    RangeDays([current |-> ParseDate(startDate), dates |-> <<>>], ParseDate(endDate),
              LoopBound(ParseDate(startDate), ParseDate(endDate))).dates

\* buildCalendarViewForRange is called (lines 207-217) and awaits getActiveTasks.
CallBuildCalendarViewForRange(startDate, endDate, currentLocation) ==
    [QueryFrame("buildCalendarViewForRange", "", startDate, currentLocation)
        EXCEPT !.endDate = endDate,
               !.datesLeft = RangeDates(startDate, endDate),
               !.pc = "calendar.getActiveTasks"]

\* getDaysInMonth: new Date(year, month, 0).getDate(), month in 1..12.
DaysInMonth(year, month) == GetDate(NewDate(year, month, 0))

\* buildCalendarView, the for loop (lines 75-77): the days it builds a view for.
MonthDates(year, month) ==
    [day \in 1..DaysInMonth(year, month) |-> FormatDate(NewDate(year, month - 1, day))]

\* buildCalendarView is called (lines 51-60) and awaits getActiveTasks; date and endDate
\* hold startDate and endDate of lines 63-64.
CallBuildCalendarView(year, month, currentLocation) ==
    [QueryFrame("buildCalendarView", "", FormatDate(NewDate(year, month - 1, 1)),
                currentLocation)
        EXCEPT !.endDate = FormatDate(NewDate(year, month - 1, DaysInMonth(year, month))),
               !.year = year, !.month = month,
               !.datesLeft = MonthDates(year, month),
               !.pc = "calendar.getActiveTasks"]

\* getActiveTasks has resolved (lines 60 and 217); getByDateRange of the instances is
\* awaited.
CalendarGotTasks(f, allTasks) ==
    [f EXCEPT !.allTasks = allTasks, !.pc = "calendar.instances"]

\* The instances have resolved (lines 65 and 218); the daily records are awaited.
CalendarGotInstances(f, instances) ==
    [f EXCEPT !.instances = instances, !.pc = "calendar.dailyRecords"]

\* The daily records have resolved (lines 66 and 219); the finance entries are awaited.
CalendarGotRecords(f, records) ==
    [f EXCEPT !.records = records, !.pc = "calendar.financeEntries"]

\* The finance entries have resolved (lines 67 and 220), and the loop over the days is
\* entered.
CalendarGotFinance(f, finance) ==
    CalendarLoop([f EXCEPT !.finance = finance])

(* The step of a call in flight on the four object stores it reads. *)

\* The frame f of a call at an await, after the read it awaits has resolved on the
\* tasks ts, the task instances st, the daily records daily and the finance entries fin.
Step(f, ts, st, daily, fin) ==
    CASE f.pc = "calculateStreak.getById" ->
            StreakGotTask(f, getById(ts, f.inner.taskId))
      [] f.pc = "calculateStreak.getByTaskAndDate" ->
            StreakGotInstance(f, getByTaskAndDate(st, f.inner.taskId,
                                                  FormatDate(f.walk.currentDate)))
      [] f.pc = "isStreakBroken.getById" ->
            BrokenGotTask(f, getById(ts, f.inner.taskId))
      [] f.pc = "isStreakBroken.getByTaskAndDate" ->
            BrokenGotInstance(f, getByTaskAndDate(st, f.inner.taskId, f.inner.date))
      [] f.pc = "getLongestStreak.getById" ->
            LongestGotTask(f, getById(ts, f.inner.taskId))
      [] f.pc = "getLongestStreak.getByTaskId" ->
            LongestGotInstances(f, getByTaskId(st, f.inner.taskId))
      [] f.pc = "getStreakStats.getById" ->
            StatsGotTask(f, getById(ts, f.taskId))
      [] f.pc = "getStreakStats.getByTaskId" ->
            StatsGotInstances(f, getByTaskId(st, f.taskId))
      [] f.pc = "resolveTasksForDate.getActiveTasks" ->
            ResolveGotTasks(f, getActiveTasks(ts))
      [] f.pc = "resolveTasksForDate.getByDate" ->
            ResolveGotInstances(f, getByDate(st, f.date))
      [] f.pc = "resolveTaskForDate.getById" ->
            ResolveTaskGotTask(f, getById(ts, f.taskId))
      [] f.pc = "resolveTaskForDate.getByTaskAndDate" ->
            ResolveTaskGotInstance(f, getByTaskAndDate(st, f.taskId, f.date))
      [] f.pc = "calendar.getActiveTasks" ->
            CalendarGotTasks(f, getActiveTasks(ts))
      [] f.pc = "calendar.instances" ->
            CalendarGotInstances(f, getByDateRange(st, f.date, f.endDate))
      [] f.pc = "calendar.dailyRecords" ->
            CalendarGotRecords(f, getItemsByDateRange(daily, f.date, f.endDate))
      [] f.pc = "calendar.financeEntries" ->
            CalendarGotFinance(f, getItemsByDateRange(fin, f.date, f.endDate))
      [] f.pc = "buildDayView" -> DayViewReturned(f)
      [] OTHER -> f

RECURSIVE StepsOf(_, _, _, _, _, _)
\* n steps of a call on stores that do not change, taken as a first and a second half:
\* g is the frame after the first half.
StepsOf(f, ts, st, daily, fin, n) ==
    IF n <= 0 THEN f
    ELSE IF n = 1 THEN Step(f, ts, st, daily, fin)
    ELSE CHOOSE r \in {IF g.pc = "return" THEN g
                       ELSE StepsOf(g, ts, st, daily, fin, n - n \div 2) :
                          g \in {StepsOf(f, ts, st, daily, fin, n \div 2)}} : TRUE

RECURSIVE RunFrom(_, _, _, _, _, _)
\* The frame in which a call returns: n steps are taken, and as long as the call has
\* not returned, twice as many again.  Every call returns, since each of its loops
\* ends (the walk of calculateStreak at the task's start date, the others with the
\* list they go through).
RunFrom(f, ts, st, daily, fin, n) ==
    CHOOSE r \in {IF g.pc = "return" THEN g
                  ELSE RunFrom(g, ts, st, daily, fin, 2 * n) :
                     g \in {StepsOf(f, ts, st, daily, fin, n)}} : TRUE

\* What a call returns when no write lands between its awaits.
Run(f, ts, st, daily, fin) == RunFrom(f, ts, st, daily, fin, 1).result

(* The operations on stores that do not change between their awaits. *)

calculateStreak(ts, st, taskId, upToDate) ==
    Run(CallCalculateStreak(QueryFrame("calculateStreak", taskId, upToDate, ""),
                            taskId, upToDate), ts, st, {}, {})

isStreakBroken(ts, st, taskId, date) ==
    Run(CallIsStreakBroken(QueryFrame("isStreakBroken", taskId, date, ""), taskId, date),
        ts, st, {}, {})

getLongestStreak(ts, st, taskId) ==
    Run(CallGetLongestStreak(QueryFrame("getLongestStreak", taskId, NoDate, ""), taskId),
        ts, st, {}, {})

getStreakStats(ts, st, taskId, upToDate) ==
    Run(CallGetStreakStats(taskId, upToDate), ts, st, {}, {})

resolveTaskForDate(ts, st, taskId, date, currentLocation) ==
    Run(CallResolveTaskForDate(taskId, date, currentLocation), ts, st, {}, {})

\* resolveTasksForDate: the sequences it can return.
resolveTasksForDate(ts, st, date, currentLocation) ==
    sortTaskViews(Run(CallResolveTasksForDate("resolveTasksForDate", date,
                                              currentLocation), ts, st, {}, {}))

buildCalendarViewForRange(ts, st, daily, fin, startDate, endDate, currentLocation) ==
    Run(CallBuildCalendarViewForRange(startDate, endDate, currentLocation),
        ts, st, daily, fin)

buildCalendarView(ts, st, daily, fin, year, month, currentLocation) ==
    Run(CallBuildCalendarView(year, month, currentLocation), ts, st, daily, fin)

-----------------------------------------------------------------------------
(* The other operations of the repositories that write: TaskRepository      *)
(* (src/unnamed/part_000), TaskInstanceRepository.delete and deleteByTaskId,*)
(* StorageService.clear, DailyRecordRepository and FinanceRepository.  Each *)
(* store operation is one IndexedDB transaction.                            *)

\* TaskRepository.create: put on the tasks store.
CreateTask(c, task) ==
    /\ calls[c].pc = "idle"
    /\ tasks' = put(tasks, task)
    /\ UNCHANGED <<appVars, store, dailyRecords, financeEntries, calls>>

\* TaskRepository.update: put on the tasks store.
UpdateTask(c, task) ==
    /\ calls[c].pc = "idle"
    /\ tasks' = put(tasks, task)
    /\ UNCHANGED <<appVars, store, dailyRecords, financeEntries, calls>>

\* TaskRepository.delete.
DeleteTask(c, id) ==
    /\ calls[c].pc = "idle"
    /\ tasks' = delete(tasks, id)
    /\ UNCHANGED <<appVars, store, dailyRecords, financeEntries, calls>>

\* archive / unarchive up to the await of update: getById has resolved and the flag of
\* the task read is set; without a task the call returns.
ArchiveRead(c, op, id, isArchived) ==
    /\ calls[c].pc = "idle"
    /\ LET task == getById(tasks, id)
       IN  calls' = [calls EXCEPT ![c] =
               IF task # NoTask
               THEN [pc |-> "update", op |-> op, taskId |-> id,
                     task |-> [task EXCEPT !.isArchived = isArchived]]
               ELSE IdleFrame]
    /\ UNCHANGED <<appVars, tasks, store, dailyRecords, financeEntries>>

\* TaskRepository.archive, lines 61-64.
ArchiveTask(c, id) == ArchiveRead(c, "archive", id, TRUE)

\* TaskRepository.unarchive, lines 72-75.
UnarchiveTask(c, id) == ArchiveRead(c, "unarchive", id, FALSE)

\* await this.update(task) of archive and unarchive: the put runs and the call returns.
ArchiveUpdate(c) ==
    /\ calls[c].pc = "update"
    /\ tasks' = put(tasks, calls[c].task)
    /\ calls' = [calls EXCEPT ![c] = IdleFrame]
    /\ UNCHANGED <<appVars, store, dailyRecords, financeEntries>>

\* TaskInstanceRepository.delete.
DeleteInstance(c, id) ==
    /\ calls[c].pc = "idle"
    /\ store' = delete(store, id)
    /\ UNCHANGED <<appVars, tasks, dailyRecords, financeEntries, calls>>

\* deleteByTaskId, line 62: getByTaskId has resolved; without instances the call
\* returns.
DeleteByTaskIdRead(c, taskId) ==
    /\ calls[c].pc = "idle"
    /\ LET instances == getByTaskId(store, taskId)
       IN  calls' = [calls EXCEPT ![c] =
               IF instances # {}
               THEN [pc |-> "delete", op |-> "deleteByTaskId", taskId |-> taskId,
                     ids |-> {i.id : i \in instances}]
               ELSE IdleFrame]
    /\ UNCHANGED <<appVars, tasks, store, dailyRecords, financeEntries>>

\* deleteByTaskId, line 63: one delete per instance read.  The deletes are issued
\* together (Promise.all over a map), so their transactions are queued one behind the
\* other and no other operation on the store runs between them.
DeleteByTaskIdDelete(c) ==
    /\ calls[c].pc = "delete"
    /\ store' = {r \in store : r.id \notin calls[c].ids}
    /\ calls' = [calls EXCEPT ![c] = IdleFrame]
    /\ UNCHANGED <<appVars, tasks, dailyRecords, financeEntries>>

\* StorageService.clear(storeName).  The settings in memory stay as they are.
Clear(c, storeName) ==
    /\ calls[c].pc = "idle"
    /\ storeName \in StoreNames
    /\ tasks' = IF storeName = "tasks" THEN {} ELSE tasks
    /\ store' = IF storeName = "taskInstances" THEN {} ELSE store
    /\ dailyRecords' = IF storeName = "dailyRecords" THEN {} ELSE dailyRecords
    /\ financeEntries' = IF storeName = "financeEntries" THEN {} ELSE financeEntries
    /\ settings' = IF storeName = "settings" THEN {} ELSE settings
    /\ UNCHANGED <<settingsSignal, displayed, zone, calls>>

\* day-detail saveDailyRecord: dailyRecordRepo.upsert of the record of the date.
SaveDailyRecord(date) ==
    /\ \E c \in DOMAIN calls : calls[c].pc = "idle"
    /\ dailyRecords' = putDailyRecord(dailyRecords, [date |-> date])
    /\ UNCHANGED <<appVars, tasks, store, financeEntries, calls>>

\* FinanceRepository.create.
CreateFinanceEntry(id, date) ==
    /\ \E c \in DOMAIN calls : calls[c].pc = "idle"
    /\ financeEntries' = putFinanceEntry(financeEntries, [id |-> id, date |-> date])
    /\ UNCHANGED <<appVars, tasks, store, dailyRecords, calls>>

\* DailyRecordRepository.delete(date).
DeleteDailyRecord(date) ==
    /\ \E c \in DOMAIN calls : calls[c].pc = "idle"
    /\ dailyRecords' = {r \in dailyRecords : r.date # date}
    /\ UNCHANGED <<appVars, tasks, store, financeEntries, calls>>

\* FinanceRepository.delete(id).
DeleteFinanceEntry(id) ==
    /\ \E c \in DOMAIN calls : calls[c].pc = "idle"
    /\ financeEntries' = delete(financeEntries, id)
    /\ UNCHANGED <<appVars, tasks, store, dailyRecords, calls>>

-----------------------------------------------------------------------------
(* Bookkeeping of a run: the number of calls started, and the calls that   *)
(* finished most recently with what each read and returned.                *)

LastN(n, s) == IF Len(s) <= n THEN s ELSE SubSeq(s, Len(s) - n + 1, Len(s))

\* A call starts: one more call of the run.  new Date() reads a clock of milliseconds:
\* the call reads the time the call before it read, or a later one.  The call takes the
\* first free caller slot (the slots are interchangeable).
StartedWithin(c, max) ==
    /\ nCalls < max
    /\ \A k \in DOMAIN calls : k < c => calls[k].pc # "idle"
    /\ nCalls' = nCalls + 1
    /\ now' \in {now, now + 1}

Started(c) == StartedWithin(c, MaxCalls)

\* The finishing call of caller c joins the log, which keeps its last `keep` entries.
Logged(c, keep) ==
    hist' = LastN(keep, Append(hist,
                [op |-> calls[c].op, taskId |-> calls[c].taskId, date |-> calls[c].date,
                 value |-> calls[c].value, at |-> calls[c].at,
                 existing |-> calls[c].existing, result |-> calls[c].instance]))

\* A step of a call that writes outdates the last answer.
Outdated == hist' = <<>> /\ UNCHANGED <<nCalls, now>>

\* A step that neither starts a call nor ends one the log keeps.
Quiet == UNCHANGED <<nCalls, now, hist>>

\* The log entry of a query that has returned result.
Answer(f, result) ==
    CASE f.op = "resolveTasksForDate" ->
            [op |-> f.op, date |-> f.date, location |-> f.location, result |-> result]
      [] f.op = "resolveTaskForDate" ->
            [op |-> f.op, taskId |-> f.taskId, date |-> f.date,
             location |-> f.location, result |-> result]
      [] f.op = "buildCalendarViewForRange" ->
            [op |-> f.op, startDate |-> f.date, endDate |-> f.endDate,
             location |-> f.location, result |-> result]
      [] f.op = "buildCalendarView" ->
            [op |-> f.op, year |-> f.year, month |-> f.month,
             location |-> f.location, result |-> result]
      [] OTHER ->
            [op |-> f.op, taskId |-> f.taskId, date |-> f.date, value |-> NoValue,
             at |-> now, existing |-> Undefined, result |-> result]

\* What the finished call of frame f hands to its caller: resolveTasksForDate returns
\* its views sorted (line 81).
Results(f) ==
    IF f.op \in {"resolveTasksForDate", "loadTasks"} THEN sortTaskViews(f.result)
    ELSE {f.result}

\* The instances of the views a finished resolveTasksForDate holds.
InstancesOfViews(f) ==
    IF f.pc = "return" /\ f.op = "resolveTasksForDate"
    THEN {[id |-> f.result[i].id, taskId |-> f.result[i].taskId,
           date |-> f.result[i].date, status |-> f.result[i].status,
           completedAt |-> f.result[i].completedAt, value |-> f.result[i].value] :
            i \in DOMAIN f.result}
    ELSE {}

\* The frame f of caller c's query takes effect: the call stands at its next await, or
\* it has returned, and its answer replaces the log, or (loadTasks of the day page,
\* line 87) the list it returns replaces the list displayed, the log counting the
\* loads that have finished.  The task instances are written by none of it.
SettleWith(c, f, written) ==
    /\ store' = store \cup written
    /\ IF f.pc # "return"
       THEN /\ calls' = [calls EXCEPT ![c] = f]
            /\ UNCHANGED <<hist, displayed>>
       ELSE /\ calls' = [calls EXCEPT ![c] = IdleFrame]
            /\ IF f.op = "loadTasks"
               THEN /\ displayed' \in Results(f)
                    /\ hist' = <<[op |-> "loadTasks", date |-> f.date,
                                  loads |-> IF hist = <<>> THEN 1 ELSE hist[1].loads + 1]>>
               ELSE /\ \E result \in Results(f) : hist' = <<Answer(f, result)>>
                    /\ UNCHANGED displayed

\* resolveTasksForDate writing the pending records it made up.
SettlePersisting(c, f) == SettleWith(c, f, InstancesOfViews(f))

Settle(c, f) == SettleWith(c, f, {})

\* A step of the query of caller c that leads to the frame f.
ReadStep(c, f) ==
    /\ Settle(c, f)
    /\ UNCHANGED <<tasks, dailyRecords, financeEntries, settings, settingsSignal, zone,
                   now, nCalls>>

\* Caller c makes the call of frame f, which runs up to its second await: the read it
\* awaits first has resolved.
Enter(c, f) ==
    /\ calls[c].pc = "idle"
    /\ \E g \in {Step(f, tasks, store, dailyRecords, financeEntries)} : ReadStep(c, g)

\* The read the call of caller c awaits at pc resolves, and the call runs up to its
\* next await or to its return.
Await(c, pc) ==
    /\ calls[c].pc = pc
    /\ \E g \in {Step(calls[c], tasks, store, dailyRecords, financeEntries)} :
            ReadStep(c, g)

(* The calls of the queries: each up to its second await. *)

CalculateStreak(c, taskId, upToDate) ==
    Enter(c, CallCalculateStreak(QueryFrame("calculateStreak", taskId, upToDate, ""),
                                 taskId, upToDate))

IsStreakBroken(c, taskId, date) ==
    Enter(c, CallIsStreakBroken(QueryFrame("isStreakBroken", taskId, date, ""),
                                taskId, date))

GetLongestStreak(c, taskId) ==
    Enter(c, CallGetLongestStreak(QueryFrame("getLongestStreak", taskId, NoDate, ""),
                                  taskId))

GetStreakStats(c, taskId, upToDate) == Enter(c, CallGetStreakStats(taskId, upToDate))

ResolveTasksForDate(c, date, currentLocation) ==
    Enter(c, CallResolveTasksForDate("resolveTasksForDate", date, currentLocation))

ResolveTaskForDate(c, taskId, date, currentLocation) ==
    Enter(c, CallResolveTaskForDate(taskId, date, currentLocation))

BuildCalendarViewForRange(c, startDate, endDate, currentLocation) ==
    Enter(c, CallBuildCalendarViewForRange(startDate, endDate, currentLocation))

BuildCalendarView(c, year, month, currentLocation) ==
    Enter(c, CallBuildCalendarView(year, month, currentLocation))

(* The awaits of the queries: the read resolves and the call goes on. *)

\* calculateStreak, line 27, called by resolveTasksForDate, resolveTaskForDate or
\* getStreakStats.
CalculateStreakGetById(c) == Await(c, "calculateStreak.getById")
\* calculateStreak, line 45.
CalculateStreakGetByTaskAndDate(c) == Await(c, "calculateStreak.getByTaskAndDate")
\* isStreakBroken, line 70, called by buildDayView.
IsStreakBrokenGetById(c) == Await(c, "isStreakBroken.getById")
\* isStreakBroken, line 82.
IsStreakBrokenGetByTaskAndDate(c) == Await(c, "isStreakBroken.getByTaskAndDate")
\* getLongestStreak, line 94, called by getStreakStats.
GetLongestStreakGetById(c) == Await(c, "getLongestStreak.getById")
\* getLongestStreak, line 99.
GetLongestStreakGetByTaskId(c) == Await(c, "getLongestStreak.getByTaskId")
\* getStreakStats, line 172.
GetStreakStatsGetByTaskId(c) == Await(c, "getStreakStats.getByTaskId")
\* resolveTasksForDate, line 33, called by loadTasks.
ResolveGetActiveTasks(c) == Await(c, "resolveTasksForDate.getActiveTasks")
\* resolveTasksForDate, line 47.
ResolveGetByDate(c) == Await(c, "resolveTasksForDate.getByDate")
\* resolveTaskForDate, line 112.
ResolveTaskGetByTaskAndDate(c) == Await(c, "resolveTaskForDate.getByTaskAndDate")
\* buildCalendarView line 65, buildCalendarViewForRange line 218.
CalendarGetInstances(c) == Await(c, "calendar.instances")
\* buildCalendarView line 66, buildCalendarViewForRange line 219.
CalendarGetDailyRecords(c) == Await(c, "calendar.dailyRecords")
\* buildCalendarView line 67, buildCalendarViewForRange line 220.
CalendarGetFinanceEntries(c) == Await(c, "calendar.financeEntries")
\* buildCalendarView line 79, buildCalendarViewForRange line 230: buildDayView returns.
CalendarDayView(c) == Await(c, "buildDayView")

\* The steps of calculateStreak in the frame of caller c.
StreakSteps(c) ==
    \/ CalculateStreakGetById(c)
    \/ CalculateStreakGetByTaskAndDate(c)

\* The steps of the calendar in the frame of caller c.
CalendarSteps(c) ==
    \/ CalendarGetInstances(c)
    \/ CalendarGetDailyRecords(c)
    \/ CalendarGetFinanceEntries(c)
    \/ IsStreakBrokenGetById(c)
    \/ IsStreakBrokenGetByTaskAndDate(c)
    \/ CalendarDayView(c)

-----------------------------------------------------------------------------
(* The mutation calls of two overlapping callers, from an empty store.  No  *)
(* operation of these calls reads a Date but the clock.                     *)

MutTaskIds == {"t1", "t2"}
MutDates == {0, 1}
Values == {"v1", "v2"}

\* The (task, date) pairs and the value the overlapping callers work on.
OverlapPairs == {<<"t1", 0>>, <<"t2", 0>>}
OverlapValues == {"v1"}

Init ==
    /\ AppStarted
    /\ zone = UTC
    /\ tasks = {}
    /\ store = {}
    /\ calls = [c \in {1, 2} |-> IdleFrame]
    /\ now = 0
    /\ nCalls = 0
    /\ hist = <<>>
    /\ dailyRecords = {}
    /\ financeEntries = {}

MutationStep(keep, pairs, values, max) ==
    \/ \E c \in DOMAIN calls, p \in pairs, value \in values \cup {NoValue} :
            CompleteTaskRead(c, p[1], p[2], value) /\ StartedWithin(c, max)
                /\ UNCHANGED hist
    \/ \E c \in DOMAIN calls, p \in pairs :
            SkipTaskRead(c, p[1], p[2]) /\ StartedWithin(c, max) /\ UNCHANGED hist
    \/ \E c \in DOMAIN calls, p \in pairs :
            ResetTaskRead(c, p[1], p[2]) /\ StartedWithin(c, max) /\ UNCHANGED hist
    \/ \E c \in DOMAIN calls : Upsert(c) /\ Logged(c, keep) /\ UNCHANGED <<nCalls, now>>
    \/ \E c \in DOMAIN calls : Return(c) /\ Logged(c, keep) /\ UNCHANGED <<nCalls, now>>

Next == MutationStep(2, OverlapPairs, OverlapValues, MaxCalls)

Spec == Init /\ [][Next]_vars

(* The same calls made one after the other by a single caller: MaxSeqCalls  *)
(* calls, enough for a pair to be completed, reset and completed twice.      *)

SeqPairs == {<<"t1", 0>>, <<"t2", 0>>}

InitSeq ==
    /\ AppStarted
    /\ zone = UTC
    /\ tasks = {}
    /\ store = {}
    /\ calls = [c \in {1} |-> IdleFrame]
    /\ now = 0
    /\ nCalls = 0
    /\ hist = <<>>
    /\ dailyRecords = {}
    /\ financeEntries = {}

NextSeq == MutationStep(2, SeqPairs, Values, MaxSeqCalls)

SpecSeq == InitSeq /\ [][NextSeq]_vars

-----------------------------------------------------------------------------
(* The streak engine asked about one task, "t1", whose completion records   *)
(* a single caller makes and unmakes on the days 0..MaxDay, in every zone.  *)
(* The clock is held still: no streak operation reads completedAt.  A       *)
(* question is asked once the log was emptied by a step that writes.        *)

NoCondition == [present |-> FALSE, allowedLocations |-> {}, excludedLocations |-> {}]
Condition(allowed, excluded) ==
    [present |-> TRUE, allowedLocations |-> allowed, excludedLocations |-> excluded]

\* A task as the add-task form saves it (part_003 lines 103-118): no priority, and a
\* location condition allowing the form's location when one is filled in ("" is the
\* empty field).  The type, the creation time and the reminder the form may add (lines
\* 121-127) are read by no operation of the model and are left out.
NewTask(id, title, streakEnabled, location, recurrence) ==
    [id |-> id, title |-> title, streakEnabled |-> streakEnabled, isArchived |-> FALSE,
     priority |-> [kind |-> "undefined", label |-> "", num |-> 0],
     recurrence |-> recurrence,
     locationCondition |-> IF location # "" THEN Condition({location}, {})
                           ELSE NoCondition]

Rule(type, daysOfWeek, startDate, endDate) ==
    [type |-> type, daysOfWeek |-> daysOfWeek, dayOfMonth |-> 0,
     startDate |-> startDate, endDate |-> endDate]

RuleOfCustom(daysOfWeek, dayOfMonth, startDate, endDate) ==
    [type |-> "custom", daysOfWeek |-> daysOfWeek, dayOfMonth |-> dayOfMonth,
     startDate |-> startDate, endDate |-> endDate]

\* The task tables the streak questions are asked of: a daily task from day 0 on (it
\* occurs on every day of StreakDates), a daily task starting on day 1, a
\* Monday/Wednesday task (days 0 and 2), a daily task ending on day 1, a daily task
\* without streaks, a one-off task on day 1, and a table without the task.
StreakTables ==
    { {NewTask("t1", "Run", TRUE, "", Rule("daily", {}, 0, NoDate))},
      {NewTask("t1", "Run", TRUE, "", Rule("daily", {}, 1, NoDate))},
      {NewTask("t1", "Run", TRUE, "", Rule("weekly", {1, 3}, 0, NoDate))},
      {NewTask("t1", "Run", TRUE, "", Rule("daily", {}, 0, 1))},
      {NewTask("t1", "Run", FALSE, "", Rule("daily", {}, 0, NoDate))},
      {NewTask("t1", "Run", TRUE, "", Rule("once", {}, 1, NoDate))},
      {} }

StreakDates == 0..MaxDay

InitStreak ==
    /\ AppStarted
    /\ zone \in Zones
    /\ tasks \in StreakTables
    /\ store = {}
    /\ calls = [c \in {1} |-> IdleFrame]
    /\ now = 0
    /\ nCalls = 0
    /\ hist = <<>>
    /\ dailyRecords = {}
    /\ financeEntries = {}

\* The steps of the streak questions in the frame of caller c.
StreakEngineSteps(c) ==
    \/ StreakSteps(c)
    \/ IsStreakBrokenGetByTaskAndDate(c)
    \/ GetLongestStreakGetById(c)
    \/ GetLongestStreakGetByTaskId(c)
    \/ GetStreakStatsGetByTaskId(c)

NextStreak ==
    \/ \E date \in StreakDates : CompleteTaskRead(1, "t1", date, NoValue) /\ Outdated
    \/ \E date \in StreakDates : SkipTaskRead(1, "t1", date) /\ Outdated
    \/ \E date \in StreakDates : ResetTaskRead(1, "t1", date) /\ Outdated
    \/ Upsert(1) /\ Outdated
    \/ Return(1) /\ Outdated
    \/ \E upToDate \in StreakDates : hist = <<>> /\ CalculateStreak(1, "t1", upToDate)
    \/ \E date \in StreakDates : hist = <<>> /\ IsStreakBroken(1, "t1", date)
    \/ hist = <<>> /\ GetLongestStreak(1, "t1")
    \/ \E upToDate \in StreakDates : hist = <<>> /\ GetStreakStats(1, "t1", upToDate)
    \/ StreakEngineSteps(1)

SpecStreak == InitStreak /\ [][NextStreak]_vars

-----------------------------------------------------------------------------
(* The streak engine asked about a task that occurs on Mondays that are the *)
(* first of a month, from 2024-07-01 on: it occurs on 2024-07-01 (day 182)  *)
(* and next on 2025-09-01 (day 609).  A single caller completes, skips and  *)
(* resets it on these two days and on the day after the first.              *)

GapTable == {NewTask("t1", "Review", TRUE, "", RuleOfCustom({1}, 1, 182, NoDate))}

GapDates == {182, 183, 609}

InitGap ==
    /\ AppStarted
    /\ zone \in Zones
    /\ tasks = GapTable
    /\ store = {}
    /\ calls = [c \in {1} |-> IdleFrame]
    /\ now = 0
    /\ nCalls = 0
    /\ hist = <<>>
    /\ dailyRecords = {}
    /\ financeEntries = {}

NextGap ==
    \/ \E date \in GapDates : CompleteTaskRead(1, "t1", date, NoValue) /\ Outdated
    \/ \E date \in GapDates : SkipTaskRead(1, "t1", date) /\ Outdated
    \/ \E date \in GapDates : ResetTaskRead(1, "t1", date) /\ Outdated
    \/ Upsert(1) /\ Outdated
    \/ Return(1) /\ Outdated
    \/ \E upToDate \in GapDates : hist = <<>> /\ CalculateStreak(1, "t1", upToDate)
    \/ hist = <<>> /\ GetLongestStreak(1, "t1")
    \/ \E upToDate \in GapDates : hist = <<>> /\ GetStreakStats(1, "t1", upToDate)
    \/ StreakSteps(1)
    \/ GetLongestStreakGetById(1)
    \/ GetLongestStreakGetByTaskId(1)
    \/ GetStreakStatsGetByTaskId(1)

SpecGap == InitGap /\ [][NextGap]_vars

-----------------------------------------------------------------------------
(* The streak engine and the calendar across a change of the zone's offset: *)
(* "t1" is a daily streak task from 2024-04-06 (day 96) on, the day before  *)
(* the clocks of Australia/Sydney are set back, and "t2" one from           *)
(* 2024-10-27 (day 300) on, the day those of Europe/Berlin are.  A single   *)
(* caller completes each on its first two days, and asks.                   *)

ZoneTable ==
    { NewTask("t1", "Run", TRUE, "", Rule("daily", {}, 96, NoDate)),
      NewTask("t2", "Read", TRUE, "", Rule("daily", {}, 300, NoDate)) }

\* The first two days of each task.
ZoneDays == [t1 |-> {96, 97}, t2 |-> {300, 301}]

\* April and October 2024.
ZoneMonths == {<<2024, 4>>, <<2024, 10>>}

InitZone ==
    /\ AppStarted
    /\ zone \in Zones
    /\ tasks = ZoneTable
    /\ store = {}
    /\ dailyRecords = {}
    /\ financeEntries = {}
    /\ calls = [c \in {1} |-> IdleFrame]
    /\ now = 0
    /\ nCalls = 0
    /\ hist = <<>>

NextZone ==
    \/ \E taskId \in DOMAIN ZoneDays : \E date \in ZoneDays[taskId] :
            CompleteTaskRead(1, taskId, date, NoValue) /\ Outdated
    \/ Upsert(1) /\ Outdated
    \/ \E taskId \in DOMAIN ZoneDays : \E upToDate \in ZoneDays[taskId] :
            hist = <<>> /\ CalculateStreak(1, taskId, upToDate)
    \/ \E taskId \in DOMAIN ZoneDays : \E upToDate \in ZoneDays[taskId] :
            hist = <<>> /\ GetStreakStats(1, taskId, upToDate)
    \/ \E taskId \in DOMAIN ZoneDays : \E startDate, endDate \in ZoneDays[taskId] :
            hist = <<>> /\ BuildCalendarViewForRange(1, startDate, endDate, "home")
    \/ \E ym \in ZoneMonths : hist = <<>> /\ BuildCalendarView(1, ym[1], ym[2], "home")
    \/ StreakSteps(1)
    \/ GetLongestStreakGetById(1)
    \/ GetLongestStreakGetByTaskId(1)
    \/ GetStreakStatsGetByTaskId(1)
    \/ CalendarSteps(1)

SpecZone == InitZone /\ [][NextZone]_vars

-----------------------------------------------------------------------------
(* The day's task list resolved for tables of three tasks, while a single   *)
(* caller makes and unmakes records of "t1" on the days 0..MaxResolveDay    *)
(* and completes "t2" on day 0.  The clock is held still, and a question  *)
(* is asked once the log was emptied by a mutation step.                    *)

Undef == [kind |-> "undefined", label |-> "", num |-> 0]
Num(n) == [kind |-> "number", label |-> "", num |-> n]

Locations == {"home", "office"}

\* The priorities of t1, t2, t3: none set (tasks as the add-task form saves them), all
\* set by reordering the list on different days, or set for t1 only.
PriorityPatterns == {<<Undef, Undef, Undef>>, <<Num(2), Num(1), Num(1)>>,
                     <<Num(1), Undef, Undef>>}

\* What sets t2 apart: nothing, archived, a Tuesday task (day 1 only), allowed at home
\* only, excluded at the office, allowed at both but excluded at the office.
Variants ==
    { [isArchived |-> a, recurrence |-> r, locationCondition |-> l] :
        <<a, r, l>> \in
          { <<FALSE, Rule("daily", {}, 0, NoDate), NoCondition>>,
            <<TRUE, Rule("daily", {}, 0, NoDate), NoCondition>>,
            <<FALSE, Rule("weekly", {2}, 0, NoDate), NoCondition>>,
            <<FALSE, Rule("daily", {}, 0, NoDate), Condition({"home"}, {})>>,
            <<FALSE, Rule("daily", {}, 0, NoDate), Condition({}, {"office"})>>,
            <<FALSE, Rule("daily", {}, 0, NoDate),
              Condition({"home", "office"}, {"office"})>> } }

\* t1: a daily streak task; t2: a task without streaks; t3: a daily streak task
\* starting on day 1.
ResolveTables ==
    { { [NewTask("t1", "cherry", TRUE, "", Rule("daily", {}, 0, NoDate))
            EXCEPT !.priority = p[1]],
        [NewTask("t2", "Banana", FALSE, "", v.recurrence)
            EXCEPT !.priority = p[2], !.isArchived = v.isArchived,
                   !.locationCondition = v.locationCondition],
        [NewTask("t3", title3, TRUE, "", Rule("daily", {}, 1, NoDate))
            EXCEPT !.priority = p[3]] } :
        p \in PriorityPatterns, v \in Variants, title3 \in {"apple", "Banana"} }

ResolveDates == 0..MaxResolveDay

InitResolve ==
    /\ AppStarted
    /\ zone = UTC
    /\ tasks \in ResolveTables
    /\ store = {}
    /\ calls = [c \in {1} |-> IdleFrame]
    /\ now = 0
    /\ nCalls = 0
    /\ hist = <<>>
    /\ dailyRecords = {}
    /\ financeEntries = {}

\* The task ids resolveTaskForDate is asked about; "t4" is in no table.
AskedTaskIds == {"t1", "t2", "t3", "t4"}

NextResolve ==
    \/ \E p \in ({"t1"} \X ResolveDates) \cup {<<"t2", 0>>} :
            CompleteTaskRead(1, p[1], p[2], NoValue) /\ Outdated
    \/ \E date \in ResolveDates : SkipTaskRead(1, "t1", date) /\ Outdated
    \/ \E date \in ResolveDates : ResetTaskRead(1, "t1", date) /\ Outdated
    \/ Upsert(1) /\ Outdated
    \/ Return(1) /\ Outdated
    \/ \E date \in ResolveDates, currentLocation \in Locations :
            hist = <<>> /\ ResolveTasksForDate(1, date, currentLocation)
    \/ \E taskId \in AskedTaskIds, date \in ResolveDates, currentLocation \in Locations :
            hist = <<>> /\ ResolveTaskForDate(1, taskId, date, currentLocation)
    \/ ResolveGetByDate(1)
    \/ ResolveTaskGetByTaskAndDate(1)
    \/ StreakSteps(1)

SpecResolve == InitResolve /\ [][NextResolve]_vars

-----------------------------------------------------------------------------
(* The location filter asked about one task under every location condition. *)

LocationTables ==
    { {[NewTask("t1", "Run", FALSE, "", Rule("daily", {}, 0, NoDate))
            EXCEPT !.locationCondition = condition]} :
        condition \in {NoCondition} \cup
                      {Condition(allowed, excluded) :
                          allowed \in SUBSET allLocations,
                          excluded \in SUBSET allLocations} }

InitLocation ==
    /\ AppStarted
    /\ zone = UTC
    /\ tasks \in LocationTables
    /\ store = {}
    /\ calls = [c \in {1} |-> IdleFrame]
    /\ now = 0
    /\ nCalls = 0
    /\ hist = <<>>
    /\ dailyRecords = {}
    /\ financeEntries = {}

IsLocationAllowed(task, currentLocation) ==
    /\ hist' = <<[op |-> "isLocationAllowed", task |-> task,
                  location |-> currentLocation,
                  result |-> isLocationAllowed(task, currentLocation)]>>
    /\ UNCHANGED <<appVars, tasks, store, dailyRecords, financeEntries, calls, now, nCalls>>

GetAllowedLocations(task) ==
    /\ hist' = <<[op |-> "getAllowedLocations", task |-> task,
                  result |-> getAllowedLocations(task)]>>
    /\ UNCHANGED <<appVars, tasks, store, dailyRecords, financeEntries, calls, now, nCalls>>

NextLocation ==
    \/ \E task \in tasks, currentLocation \in allLocations :
            IsLocationAllowed(task, currentLocation)
    \/ \E task \in tasks : GetAllowedLocations(task)

SpecLocation == InitLocation /\ [][NextLocation]_vars

-----------------------------------------------------------------------------
(* The recurrence engine asked whether a weekly or monthly task occurs on   *)
(* the days 0..MaxOccurDay (2024-01-01, a Monday, onwards), in every zone.  *)

RuleOfMonth(dayOfMonth, startDate, endDate) ==
    [type |-> "monthly", daysOfWeek |-> {}, dayOfMonth |-> dayOfMonth,
     startDate |-> startDate, endDate |-> endDate]

\* Weekly rules with every weekday set (the empty one standing for an empty or absent
\* daysOfWeek) and monthly rules without and with a day of the month, starting on day 0
\* or 3, open-ended or ending on day 9.
OccurTables ==
    { {NewTask("t1", "Run", FALSE, "", rule)} :
        rule \in {Rule("weekly", S, startDate, endDate) :
                    S \in SUBSET (0..6), startDate \in {0, 3}, endDate \in {NoDate, 9}}
                 \cup {RuleOfMonth(dayOfMonth, startDate, endDate) :
                    dayOfMonth \in {0, 5}, startDate \in {0, 3}, endDate \in {NoDate, 9}} }

InitOccur ==
    /\ AppStarted
    /\ zone \in Zones
    /\ tasks \in OccurTables
    /\ store = {}
    /\ calls = [c \in {1} |-> IdleFrame]
    /\ now = 0
    /\ nCalls = 0
    /\ hist = <<>>
    /\ dailyRecords = {}
    /\ financeEntries = {}

DoesTaskOccurOnDate(task, date) ==
    /\ hist' = <<[op |-> "doesTaskOccurOnDate", task |-> task, date |-> date,
                  result |-> doesTaskOccurOnDate(task, date)]>>
    /\ UNCHANGED <<appVars, tasks, store, dailyRecords, financeEntries, calls, now, nCalls>>

NextOccur == \E task \in tasks, date \in 0..MaxOccurDay : DoesTaskOccurOnDate(task, date)

SpecOccur == InitOccur /\ [][NextOccur]_vars

-----------------------------------------------------------------------------
(* The recurrence engine asked about custom rules and about the next and    *)
(* the previous occurrence of a task, from the days 0..MaxOccurDay, over    *)
(* horizons up to the default one, one question per behaviour, in every     *)
(* zone.                                                                    *)

\* Weekday sets of a custom rule: none, Monday, Friday, Monday/Wednesday/Friday, the
\* weekend, every day.
CustomWeekdays == {{}, {1}, {5}, {1, 3, 5}, {0, 6}, 0..6}

\* Custom rules with and without a weekday set and a day of the month (the 5th is a
\* Friday, the 8th a Monday, the 31st lies after the days asked from), daily, one-off,
\* weekly and monthly rules, starting on day 0 or 3, open-ended or ending on day 9.
NavigateTables ==
    { {NewTask("t1", "Run", FALSE, "", rule)} :
        rule \in {RuleOfCustom(S, dayOfMonth, startDate, endDate) :
                    S \in CustomWeekdays, dayOfMonth \in {0, 5, 8, 31},
                    startDate \in {0, 3}, endDate \in {NoDate, 9}}
                 \cup {Rule(type, S, startDate, endDate) :
                    type \in {"daily", "once", "weekly"}, S \in {{}, {1, 3, 5}},
                    startDate \in {0, 3}, endDate \in {NoDate, 9}}
                 \cup {RuleOfMonth(dayOfMonth, startDate, endDate) :
                    dayOfMonth \in {0, 5}, startDate \in {0, 3}, endDate \in {NoDate, 9}} }

\* The horizons asked with: none, one day, two days, a week, MaxHorizon days, and the
\* default.
Horizons == {0, 1, 2, 7, MaxHorizon, DefaultHorizon}

InitNavigate ==
    /\ AppStarted
    /\ zone \in Zones
    /\ tasks \in NavigateTables
    /\ store = {}
    /\ calls = [c \in {1} |-> IdleFrame]
    /\ now = 0
    /\ nCalls = 0
    /\ hist = <<>>
    /\ dailyRecords = {}
    /\ financeEntries = {}

GetNextOccurrence(task, afterDate, maxDaysAhead) ==
    /\ hist' = <<[op |-> "getNextOccurrence", task |-> task, date |-> afterDate,
                  horizon |-> maxDaysAhead,
                  result |-> getNextOccurrence(task, afterDate, maxDaysAhead)]>>
    /\ UNCHANGED <<appVars, tasks, store, dailyRecords, financeEntries, calls, now, nCalls>>

GetPreviousOccurrence(task, beforeDate, maxDaysBack) ==
    /\ hist' = <<[op |-> "getPreviousOccurrence", task |-> task, date |-> beforeDate,
                  horizon |-> maxDaysBack,
                  result |-> getPreviousOccurrence(task, beforeDate, maxDaysBack)]>>
    /\ UNCHANGED <<appVars, tasks, store, dailyRecords, financeEntries, calls, now, nCalls>>

NextNavigate ==
    \/ \E task \in tasks, date \in 0..MaxOccurDay :
            hist = <<>> /\ DoesTaskOccurOnDate(task, date)
    \/ \E task \in tasks, date \in 0..MaxOccurDay, horizon \in Horizons :
            hist = <<>> /\ GetNextOccurrence(task, date, horizon)
    \/ \E task \in tasks, date \in 0..MaxOccurDay, horizon \in Horizons :
            hist = <<>> /\ GetPreviousOccurrence(task, date, horizon)

SpecNavigate == InitNavigate /\ [][NextNavigate]_vars

-----------------------------------------------------------------------------
(* The calendar built for ranges of the days 0..MaxCalendarDay over tables  *)
(* of three tasks, while a single caller completes and skips "t1" on those  *)
(* days, completes "t2" on day 0, saves and deletes daily records of the    *)
(* days 0 and 1 and creates and deletes a finance entry of day 0, in every  *)
(* zone.  The clock is held still, and the calendar is asked for once the   *)
(* log was emptied by a step that writes.                                   *)

\* t1: a daily streak task; t2: a task without streaks, plain, archived, a Tuesday task
\* or allowed at home only; t3: a daily streak task starting on day 1.
CalendarTables ==
    { { NewTask("t1", "cherry", TRUE, "", Rule("daily", {}, 0, NoDate)),
        [NewTask("t2", "Banana", FALSE, "", v.recurrence)
            EXCEPT !.isArchived = v.isArchived,
                   !.locationCondition = v.locationCondition],
        NewTask("t3", "apple", TRUE, "", Rule("daily", {}, 1, NoDate)) } :
        v \in {w \in Variants : w.locationCondition.excludedLocations = {}} }

CalendarDates == 0..MaxCalendarDay

\* The days daily records are saved for, and the day the finance entry is made on.
RecordDates == {0, 1}
EntryDates == {0}

InitCalendar ==
    /\ AppStarted
    /\ zone \in Zones
    /\ tasks \in CalendarTables
    /\ store = {}
    /\ dailyRecords = {}
    /\ financeEntries = {}
    /\ calls = [c \in {1} |-> IdleFrame]
    /\ now = 0
    /\ nCalls = 0
    /\ hist = <<>>

NextCalendar ==
    \/ \E p \in ({"t1"} \X CalendarDates) \cup {<<"t2", 0>>} :
            CompleteTaskRead(1, p[1], p[2], NoValue) /\ Outdated
    \/ \E date \in CalendarDates : SkipTaskRead(1, "t1", date) /\ Outdated
    \/ Upsert(1) /\ Outdated
    \/ \E date \in RecordDates : SaveDailyRecord(date) /\ Outdated
    \/ \E date \in RecordDates : DeleteDailyRecord(date) /\ Outdated
    \/ \E date \in EntryDates : CreateFinanceEntry("f1", date) /\ Outdated
    \/ DeleteFinanceEntry("f1") /\ Outdated
    \/ \E startDate \in CalendarDates, endDate \in CalendarDates,
          currentLocation \in Locations :
            hist = <<>> /\ BuildCalendarViewForRange(1, startDate, endDate, currentLocation)
    \/ CalendarSteps(1)

SpecCalendar == InitCalendar /\ [][NextCalendar]_vars

-----------------------------------------------------------------------------
(* The queries of caller 2, await by await, while caller 1 completes and    *)
(* resets "t1" on the days 0..MaxCalendarDay, deletes its records, and      *)
(* deletes, archives, unarchives and creates anew the task itself.  The     *)
(* clock is held still.                                                     *)

\* t1: a daily streak task; t2: a daily task without streaks.
RaceTask == NewTask("t1", "cherry", TRUE, "", Rule("daily", {}, 0, NoDate))

RaceTable ==
    { RaceTask,
      NewTask("t2", "Banana", FALSE, "", Rule("daily", {}, 0, NoDate)) }

InitRace ==
    /\ AppStarted
    /\ zone = UTC
    /\ tasks = RaceTable
    /\ store = {}
    /\ dailyRecords = {}
    /\ financeEntries = {}
    /\ calls = [c \in {1, 2} |-> IdleFrame]
    /\ now = 0
    /\ nCalls = 0
    /\ hist = <<>>

\* The steps of caller c's queries past the call.
QuerySteps(c) ==
    \/ ResolveGetByDate(c)
    \/ ResolveTaskGetByTaskAndDate(c)
    \/ StreakSteps(c)
    \/ GetLongestStreakGetById(c)
    \/ GetLongestStreakGetByTaskId(c)
    \/ GetStreakStatsGetByTaskId(c)
    \/ CalendarSteps(c)

NextRace ==
    \/ \E date \in CalendarDates : CompleteTaskRead(1, "t1", date, NoValue) /\ Outdated
    \/ \E date \in CalendarDates : ResetTaskRead(1, "t1", date) /\ Outdated
    \/ Upsert(1) /\ Outdated
    \/ Return(1) /\ Outdated
    \/ \E date \in CalendarDates :
            DeleteInstance(1, generateInstanceId("t1", date)) /\ Outdated
    \/ DeleteByTaskIdRead(1, "t1") /\ Outdated
    \/ DeleteByTaskIdDelete(1) /\ Outdated
    \/ Clear(1, "taskInstances") /\ Outdated
    \/ CreateTask(1, RaceTask) /\ Outdated
    \/ UpdateTask(1, [RaceTask EXCEPT !.streakEnabled = FALSE]) /\ Outdated
    \/ DeleteTask(1, "t1") /\ Outdated
    \/ ArchiveTask(1, "t1") /\ Outdated
    \/ UnarchiveTask(1, "t1") /\ Outdated
    \/ ArchiveUpdate(1) /\ Outdated
    \/ \E date \in CalendarDates : hist = <<>> /\ ResolveTasksForDate(2, date, "home")
    \/ \E date \in CalendarDates : hist = <<>> /\ ResolveTaskForDate(2, "t1", date, "home")
    \/ \E date \in CalendarDates : hist = <<>> /\ CalculateStreak(2, "t1", date)
    \/ \E date \in CalendarDates : hist = <<>> /\ IsStreakBroken(2, "t1", date)
    \/ hist = <<>> /\ GetLongestStreak(2, "t1")
    \/ \E date \in CalendarDates : hist = <<>> /\ GetStreakStats(2, "t1", date)
    \/ \E startDate \in CalendarDates, endDate \in CalendarDates :
            hist = <<>> /\ BuildCalendarViewForRange(2, startDate, endDate, "home")
    \/ QuerySteps(2)

SpecRace == InitRace /\ [][NextRace]_vars

-----------------------------------------------------------------------------
(* Every query of the services asked by caller 2, await by await, in every  *)
(* zone, while caller 1 completes and resets "t1" on day 0 and skips it on  *)
(* the days 0..MaxCalendarDay: the calls that are said never to delete a    *)
(* record, and no other.  The clock is held still.                          *)

\* The day "t1" is completed and reset on.
KeepDates == {0}

InitKeep ==
    /\ AppStarted
    /\ zone \in Zones
    /\ tasks = RaceTable
    /\ store = {}
    /\ dailyRecords = {}
    /\ financeEntries = {}
    /\ calls = [c \in {1, 2} |-> IdleFrame]
    /\ now = 0
    /\ nCalls = 0
    /\ hist = <<>>

NextKeep ==
    \/ \E date \in KeepDates : CompleteTaskRead(1, "t1", date, NoValue) /\ Outdated
    \/ \E date \in CalendarDates : SkipTaskRead(1, "t1", date) /\ Outdated
    \/ \E date \in KeepDates : ResetTaskRead(1, "t1", date) /\ Outdated
    \/ Upsert(1) /\ Outdated
    \/ Return(1) /\ Outdated
    \/ \E date \in CalendarDates : hist = <<>> /\ ResolveTasksForDate(2, date, "home")
    \/ \E date \in CalendarDates : hist = <<>> /\ ResolveTaskForDate(2, "t1", date, "home")
    \/ \E date \in CalendarDates : hist = <<>> /\ CalculateStreak(2, "t1", date)
    \/ \E date \in CalendarDates : hist = <<>> /\ IsStreakBroken(2, "t1", date)
    \/ hist = <<>> /\ GetLongestStreak(2, "t1")
    \/ \E date \in CalendarDates : hist = <<>> /\ GetStreakStats(2, "t1", date)
    \/ \E startDate \in CalendarDates, endDate \in CalendarDates :
            hist = <<>> /\ BuildCalendarViewForRange(2, startDate, endDate, "home")
    \/ hist = <<>> /\ BuildCalendarView(2, 2024, 1, "home")
    \/ QuerySteps(2)

SpecKeep == InitKeep /\ [][NextKeep]_vars

-----------------------------------------------------------------------------
(* completeTask, skipTask and resetTask on a store whose operations can     *)
(* fail, called one after the other by a single caller.  The services and   *)
(* the repository catch nothing: a rejected read or put rejects the call.   *)
(* A put is one IndexedDB transaction, and a transaction that fails writes  *)
(* nothing.  The log holds the call in flight or the last one ended: how it *)
(* ended, the store as the call found it, the puts it issued and the store  *)
(* operation that failed.                                                   *)

MutationOps == {"completeTask", "skipTask", "resetTask"}

\* await this.instanceRepo.getByTaskAndDate(taskId, date) rejects: the first statement
\* of completeTask (line 140), skipTask (line 164) and resetTask (line 181) throws, and
\* the call rejects.
ReadFails(c, op, taskId, date) ==
    /\ calls[c].pc = "idle"
    /\ op \in MutationOps
    /\ UNCHANGED <<appVars, tasks, store, dailyRecords, financeEntries, calls>>

\* A failed put that had written the instance before it was rejected.
UpsertFailsAfterWrite(c) ==
    /\ calls[c].pc = "upsert"
    /\ store' = put(store, calls[c].instance)
    /\ calls' = [calls EXCEPT ![c] = IdleFrame]
    /\ UNCHANGED <<appVars, tasks, dailyRecords, financeEntries>>

\* await this.instanceRepo.upsert(instance) rejects (lines 157, 174, 187): the put wrote
\* nothing, and the call rejects.
UpsertFails(c) ==
    /\ calls[c].pc = "upsert"
    /\ calls' = [calls EXCEPT ![c] = IdleFrame]
    /\ UNCHANGED <<appVars, tasks, store, dailyRecords, financeEntries>>

InitFail ==
    /\ AppStarted
    /\ zone = UTC
    /\ tasks = {}
    /\ store = {}
    /\ dailyRecords = {}
    /\ financeEntries = {}
    /\ calls = [c \in {1} |-> IdleFrame]
    /\ now = 0
    /\ nCalls = 0
    /\ hist = <<>>

\* The log entry of a call: op(taskId, date) found the store `before`.
Entered(phase, op, taskId, date, failed) ==
    hist' = <<[phase |-> phase, op |-> op, taskId |-> taskId, date |-> date,
               before |-> store, puts |-> 0, failed |-> failed, instance |-> Undefined]>>

\* The call of caller c issues its put and ends.
Ended(c, phase, failed) ==
    /\ hist' = <<[hist[1] EXCEPT !.phase = phase, !.puts = @ + 1, !.failed = failed,
                                 !.instance = calls[c].instance]>>
    /\ UNCHANGED <<nCalls, now>>

NextFail ==
    \/ \E p \in MutTaskIds \X MutDates, value \in {NoValue, "v1"} :
            /\ CompleteTaskRead(1, p[1], p[2], value) /\ Started(1)
            /\ Entered("running", "completeTask", p[1], p[2], "none")
    \/ \E p \in MutTaskIds \X MutDates :
            /\ SkipTaskRead(1, p[1], p[2]) /\ Started(1)
            /\ Entered("running", "skipTask", p[1], p[2], "none")
    \/ \E p \in MutTaskIds \X MutDates :
            /\ ResetTaskRead(1, p[1], p[2]) /\ Started(1)
            /\ Entered("running", "resetTask", p[1], p[2], "none")
    \/ \E p \in MutTaskIds \X MutDates, op \in MutationOps :
            /\ ReadFails(1, op, p[1], p[2]) /\ Started(1)
            /\ Entered("rejected", op, p[1], p[2], "getByTaskAndDate")
    \/ Upsert(1) /\ Ended(1, "returned", "none")
    \/ UpsertFails(1) /\ Ended(1, "rejected", "put")
    \/ /\ Return(1)
       /\ hist' = <<[hist[1] EXCEPT !.phase = "returned"]>>
       /\ UNCHANGED <<nCalls, now>>

SpecFail == InitFail /\ [][NextFail]_vars

-----------------------------------------------------------------------------
(* Every query of the services asked between the mutation calls of a single *)
(* caller, who completes "t1" on the days 0..MaxCalendarDay, on the last    *)
(* day of January 2024 and on the first of February, skips and resets it    *)
(* on day 0, saves the daily record of January 31 and creates a finance     *)
(* entry on February 1.  The clock is held still, and a query is asked once *)
(* the log was emptied by a step that writes.                               *)

\* t1: a daily streak task; t2: a daily task without streaks, allowed at home only;
\* t3: a daily streak task starting on day 1.
QueryTable ==
    { NewTask("t1", "cherry", TRUE, "", Rule("daily", {}, 0, NoDate)),
      NewTask("t2", "Banana", FALSE, "home", Rule("daily", {}, 0, NoDate)),
      NewTask("t3", "apple", TRUE, "", Rule("daily", {}, 1, NoDate)) }

QueryDates == (0..MaxCalendarDay) \cup {30, 31}

\* The days "t1" is skipped and reset on.
UndoneDates == {0}

\* The months the calendar is built for: December 2023 to February 2024.
QueryMonths == {<<2023, 12>>, <<2024, 1>>, <<2024, 2>>}

InitQueries ==
    /\ AppStarted
    /\ zone = UTC
    /\ tasks = QueryTable
    /\ store = {}
    /\ dailyRecords = {}
    /\ financeEntries = {}
    /\ calls = [c \in {1} |-> IdleFrame]
    /\ now = 0
    /\ nCalls = 0
    /\ hist = <<>>

NextQueries ==
    \/ \E date \in QueryDates : CompleteTaskRead(1, "t1", date, NoValue) /\ Outdated
    \/ \E date \in UndoneDates : SkipTaskRead(1, "t1", date) /\ Outdated
    \/ \E date \in UndoneDates : ResetTaskRead(1, "t1", date) /\ Outdated
    \/ Upsert(1) /\ Outdated
    \/ Return(1) /\ Outdated
    \/ \E date \in CalendarDates, currentLocation \in Locations :
            hist = <<>> /\ ResolveTasksForDate(1, date, currentLocation)
    \/ \E taskId \in AskedTaskIds, date \in CalendarDates, currentLocation \in Locations :
            hist = <<>> /\ ResolveTaskForDate(1, taskId, date, currentLocation)
    \/ \E upToDate \in QueryDates : hist = <<>> /\ CalculateStreak(1, "t1", upToDate)
    \/ \E date \in QueryDates : hist = <<>> /\ IsStreakBroken(1, "t1", date)
    \/ hist = <<>> /\ GetLongestStreak(1, "t1")
    \/ \E upToDate \in QueryDates : hist = <<>> /\ GetStreakStats(1, "t1", upToDate)
    \/ \E startDate \in CalendarDates, endDate \in CalendarDates, currentLocation \in Locations :
            hist = <<>> /\ BuildCalendarViewForRange(1, startDate, endDate, currentLocation)
    \/ \E ym \in QueryMonths, currentLocation \in Locations :
            hist = <<>> /\ BuildCalendarView(1, ym[1], ym[2], currentLocation)
    \/ SaveDailyRecord(30) /\ Outdated
    \/ CreateFinanceEntry("f1", 31) /\ Outdated
    \/ QuerySteps(1)

SpecQueries == InitQueries /\ [][NextQueries]_vars

-----------------------------------------------------------------------------
(* The settings repository, await by await, on a database that starts       *)
(* empty.  A session begins with the constructors: StorageService starts    *)
(* initDB, and SettingsRepository sets the settings in memory to the        *)
(* defaults and starts loadSettings, neither awaited.  Every call on the    *)
(* storage awaits ensureDB first: made while the database is not open yet   *)
(* it opens the database itself and goes on when its own open request has   *)
(* resolved, behind the requests to open made before it; made later it goes *)
(* on at once, ahead of the calls still waiting.  Each operation on the     *)
(* settings store is a transaction of its own, and IndexedDB orders two     *)
(* transactions on a store when one of them writes: a put runs after the    *)
(* operations issued before it, a get after the puts issued before it, and  *)
(* two gets resolve in either order.  A                                     *)
(* method of the repository reads the settings in memory when it is called  *)
(* and sets them when its put has resolved, so that calls overlap.  The log *)
(* holds the last operation that finished and the settings written last.    *)
(* Caller 0 is the initDB of StorageService's constructor; the calls of the *)
(* repository take the slots 1..MaxSettingsCalls.                           *)

ReminderTimes == {"09:00", "07:30"}

\* What update() is called with directly: one field, two fields, all fields.
SettingsPatches ==
    {[currentLocation |-> l] : l \in Locations}
    \cup {[financeEnabled |-> TRUE],
          [currentLocation |-> "office", morningAlarmEnabled |-> TRUE],
          [DEFAULT_SETTINGS EXCEPT !.defaultReminderTime = "07:30"]}

SettingsFrame ==
    UNCHANGED <<tasks, store, dailyRecords, financeEntries, now, nCalls, displayed, zone>>

\* A call in flight: where it waits (for the database to open, or for its operation on
\* the settings store), the operation of the repository, the request it makes of the
\* store with its key or value, and the callers it waits behind.
SettingsCall(pc, op, request, key, updated, after) ==
    [pc |-> pc, op |-> op, request |-> request, key |-> key, updated |-> updated,
     after |-> after]

\* The callers waiting for a request to open the database.
Opening == {k \in DOMAIN calls : calls[k].pc \in {"initDB", "ensureDB"}}

Waiting(c) == calls[c].pc \in {"settings.get", "settings.put"}

\* The callers whose operation on the settings store is issued and has not run.
Issued == {k \in DOMAIN calls : Waiting(k)}

\* The callers whose operation one of `request` issued now runs after: a put after
\* every operation on the store, a get after the puts.
IssuedBefore(request) ==
    IF request = "get" THEN {k \in Issued : calls[k].pc = "settings.put"} ELSE Issued

\* this.db is set: the initDB the constructor started has resolved (line 53).
DbOpen == calls[0].pc = "idle"

\* The settings written last.
LastWritten == IF hist = <<>> THEN NoSettings ELSE hist[Len(hist)].written

\* A call starts in the first free slot (the slots are interchangeable).
FreeSlot(c) ==
    /\ c # 0
    /\ calls[c].pc = "idle"
    /\ \A k \in DOMAIN calls : (k # 0 /\ k < c) => calls[k].pc # "idle"

\* StorageService.ensureDB, lines 90-95, as a call of get or put reaches it: with the
\* database open the operation is issued at once, and otherwise the call awaits an
\* initDB of its own.
EnsureDBFrame(op, request, key, updated) ==
    IF DbOpen
    THEN SettingsCall(IF request = "get" THEN "settings.get" ELSE "settings.put",
                      op, request, key, updated, IssuedBefore(request))
    ELSE SettingsCall("ensureDB", op, request, key, updated, Opening)

\* Caller c goes on as `frame`, and the callers behind it no longer wait for it.
Ran(c, frame) ==
    calls' = [k \in DOMAIN calls |->
                IF k = c THEN frame
                ELSE IF "after" \in DOMAIN calls[k]
                THEN [calls[k] EXCEPT !.after = @ \ {c}]
                ELSE calls[k]]

\* The callers after the constructors of StorageService (line 46) and
\* SettingsRepository (line 26) have run: initDB and loadSettings are in flight, and
\* loadSettings, whose get found no database, awaits an initDB of its own.
Constructed ==
    [c \in 0..MaxSettingsCalls |->
        IF c = 0 THEN SettingsCall("initDB", "initDB", "open", "", NoSettings, {})
        ELSE IF c = 1
        THEN SettingsCall("ensureDB", "loadSettings", "get",
                          DEFAULT_SETTINGS.currentLocation, NoSettings, {0})
        ELSE IdleFrame]

\* The application has been opened for the first time: the database is empty.
InitSettings ==
    /\ zone = UTC
    /\ tasks = {}
    /\ store = {}
    /\ dailyRecords = {}
    /\ financeEntries = {}
    /\ calls = Constructed
    /\ now = 0
    /\ nCalls = 0
    /\ hist = <<>>
    /\ settings = {}
    /\ settingsSignal = DEFAULT_SETTINGS
    /\ displayed = <<>>

\* The application is opened again (the services are constructed anew, lines 23-27):
\* the settings in memory are the defaults and loadSettings is started.  The calls of
\* the session before end with it; an operation of theirs that was issued and has not
\* run is taken not to run, since running later it would leave the store as it does
\* running just before.
constructor ==
    /\ settingsSignal' = DEFAULT_SETTINGS
    /\ calls' = Constructed
    /\ hist' = <<[op |-> "constructor", written |-> LastWritten, result |-> NoSettings]>>
    /\ UNCHANGED settings
    /\ SettingsFrame

\* initDB, line 53: the request to open the database the constructor made has resolved,
\* and this.db is set.
InitDB ==
    /\ calls[0].pc = "initDB"
    /\ Ran(0, IdleFrame)
    /\ UNCHANGED <<settings, settingsSignal, hist>>
    /\ SettingsFrame

\* ensureDB, line 92: the initDB of a call made before the database was open has
\* resolved, and the call issues its operation on the store.
EnsureDB(c) ==
    /\ calls[c].pc = "ensureDB"
    /\ calls[c].after = {}
    /\ Ran(c, [calls[c] EXCEPT
                 !.pc = IF calls[c].request = "get" THEN "settings.get"
                        ELSE "settings.put",
                 !.after = IssuedBefore(calls[c].request)])
    /\ UNCHANGED <<settings, settingsSignal, hist>>
    /\ SettingsFrame

\* update(settings), lines 60-64: the settings in memory are read and merged with the
\* patch when the call is made; the call then awaits the put, which awaits ensureDB.
\* The methods below call update, and the log names the operation that wrote: update
\* or loadSettings.
UpdateWith(c, patch) ==
    /\ FreeSlot(c)
    /\ LET current == settingsSignal
           updated == mergeSettings(current, patch)
       IN  calls' = [calls EXCEPT ![c] =
                        EnsureDBFrame("update", "put", updated.currentLocation, updated)]
    /\ UNCHANGED <<settings, settingsSignal, hist>>
    /\ SettingsFrame

\* update(settings), lines 64-65: the put has resolved and the settings in memory are
\* set to what the call merged when it was made.
UpdatePut(c) ==
    /\ calls[c].pc = "settings.put"
    /\ calls[c].after = {}
    /\ LET updated == calls[c].updated
       IN  /\ settings' = putSettings(settings, updated)
           /\ settingsSignal' = updated
           /\ hist' = <<[op |-> calls[c].op, written |-> updated, result |-> updated]>>
    /\ Ran(c, IdleFrame)
    /\ SettingsFrame

Update(c, patch) == UpdateWith(c, patch)

UpdateLocation(c, location) ==
    UpdateWith(c, [currentLocation |-> location])

ToggleFinance(c) ==
    UpdateWith(c, [financeEnabled |-> ~settingsSignal.financeEnabled])

UpdateDefaultReminderTime(c, time) ==
    UpdateWith(c, [defaultReminderTime |-> time])

ToggleMorningAlarm(c) ==
    UpdateWith(c, [morningAlarmEnabled |-> ~settingsSignal.morningAlarmEnabled])

Reset(c) == UpdateWith(c, DEFAULT_SETTINGS)

\* get(), lines 52-53: the location of the settings in memory is read when the call is
\* made; the call then awaits the record stored under it, behind ensureDB.
Get(c) ==
    /\ FreeSlot(c)
    /\ calls' = [calls EXCEPT ![c] =
                    EnsureDBFrame("get", "get", settingsSignal.currentLocation,
                                  NoSettings)]
    /\ UNCHANGED <<settings, settingsSignal, hist>>
    /\ SettingsFrame

\* The get of loadSettings (lines 40-45) or of get() (lines 53-54) has resolved.
\* loadSettings sets the settings in memory to the record found; finding none it calls
\* update(DEFAULT_SETTINGS), which reads the settings in memory as they are by then and
\* issues its put (the database is open).  get() returns the record found, or the
\* defaults.
SettingsGot(c) ==
    /\ calls[c].pc = "settings.get"
    /\ calls[c].after = {}
    /\ LET stored == getSettings(settings, calls[c].key)
       IN  IF calls[c].op = "get"
           THEN /\ hist' = <<[op |-> "get", written |-> LastWritten,
                              result |-> IF stored # NoSettings THEN stored
                                         ELSE DEFAULT_SETTINGS]>>
                /\ Ran(c, IdleFrame)
                /\ UNCHANGED settingsSignal
           ELSE IF stored # NoSettings
           THEN /\ settingsSignal' = stored
                /\ hist' = <<[op |-> "loadSettings", written |-> LastWritten,
                              result |-> stored]>>
                /\ Ran(c, IdleFrame)
           ELSE LET updated == mergeSettings(settingsSignal, DEFAULT_SETTINGS)
                IN  /\ Ran(c, SettingsCall("settings.put", "loadSettings", "put",
                                           updated.currentLocation, updated,
                                           IssuedBefore("put") \ {c}))
                    /\ UNCHANGED <<settingsSignal, hist>>
    /\ UNCHANGED settings
    /\ SettingsFrame

\* The repository as the application uses it: sessions, the calls of its methods and
\* their awaits.
NextSettings ==
    \/ constructor
    \/ InitDB
    \/ \E c \in DOMAIN calls : EnsureDB(c)
    \/ \E c \in DOMAIN calls, patch \in SettingsPatches : Update(c, patch)
    \/ \E c \in DOMAIN calls, location \in Locations : UpdateLocation(c, location)
    \/ \E c \in DOMAIN calls : ToggleFinance(c)
    \/ \E c \in DOMAIN calls, time \in ReminderTimes : UpdateDefaultReminderTime(c, time)
    \/ \E c \in DOMAIN calls : ToggleMorningAlarm(c)
    \/ \E c \in DOMAIN calls : Reset(c)
    \/ \E c \in DOMAIN calls : Get(c)
    \/ \E c \in DOMAIN calls : UpdatePut(c)
    \/ \E c \in DOMAIN calls : SettingsGot(c)

SpecSettings == InitSettings /\ [][NextSettings]_vars

-----------------------------------------------------------------------------
(* The operations of StorageService that remove records or write several    *)
(* at once: delete, clear and transaction.  No caller in src uses them on   *)
(* the settings store; they are taken here on that store, beside the calls  *)
(* of the repository.                                                       *)

\* StorageService.delete('settings', key): the record of one location is removed.  The
\* settings in memory stay as they are.
DeleteSettings(key) ==
    /\ settings' = {r \in settings : r.currentLocation # key}
    /\ UNCHANGED <<settingsSignal, calls, hist>>
    /\ SettingsFrame

\* A write a transaction's callback makes on one of its stores.
PutOf(storeName, value) == [write |-> "put", storeName |-> storeName, value |-> value]
DeleteOf(storeName, key) == [write |-> "delete", storeName |-> storeName, key |-> key]
ClearOf(storeName) == [write |-> "clear", storeName |-> storeName]

\* The key of a record of a store (storage.service.ts, the key paths of initDB).
KeyOf(storeName, value) ==
    CASE storeName = "settings" -> value.currentLocation
      [] storeName = "dailyRecords" -> value.date
      [] OTHER -> value.id

\* A store after one write of a transaction, and after the writes in their order.
Written(st, storeName, w) ==
    IF w.storeName # storeName THEN st
    ELSE CASE w.write = "put" ->
                {r \in st : KeyOf(storeName, r) # KeyOf(storeName, w.value)} \cup {w.value}
           [] w.write = "delete" -> {r \in st : KeyOf(storeName, r) # w.key}
           [] w.write = "clear" -> {}

RECURSIVE WrittenAll(_, _, _)
WrittenAll(st, storeName, writes) ==
    IF writes = <<>> THEN st
    ELSE WrittenAll(Written(st, storeName, Head(writes)), storeName, Tail(writes))

\* StorageService.transaction(storeNames, mode, callback), lines 159-172: the writes of
\* the callback on the stores of the transaction take effect together.  The settings
\* in memory stay as they are.
Transaction(storeNames, mode, writes) ==
    /\ storeNames \subseteq StoreNames
    /\ mode = "readwrite"
    /\ \A i \in DOMAIN writes : writes[i].storeName \in storeNames
    /\ tasks' = WrittenAll(tasks, "tasks", writes)
    /\ store' = WrittenAll(store, "taskInstances", writes)
    /\ dailyRecords' = WrittenAll(dailyRecords, "dailyRecords", writes)
    /\ financeEntries' = WrittenAll(financeEntries, "financeEntries", writes)
    /\ settings' = WrittenAll(settings, "settings", writes)
    /\ UNCHANGED <<settingsSignal, displayed, zone, calls>>

\* Transactions on the settings and the daily records: a location's record replaced by
\* another's, and the daily records cleared with the default settings written.
SettingsTransactions ==
    {<<PutOf("settings", [DEFAULT_SETTINGS EXCEPT !.currentLocation = "office"]),
       DeleteOf("settings", "home")>>,
     <<ClearOf("dailyRecords"), PutOf("settings", DEFAULT_SETTINGS)>>}

NextStorage ==
    \/ NextSettings
    \/ \E key \in Locations : DeleteSettings(key)
    \/ \E c \in DOMAIN calls : Clear(c, "settings") /\ UNCHANGED <<now, nCalls, hist>>
    \/ \E writes \in SettingsTransactions :
            /\ Transaction({"settings", "dailyRecords"}, "readwrite", writes)
            /\ UNCHANGED <<now, nCalls, hist>>

SpecStorage == InitSettings /\ [][NextStorage]_vars

-----------------------------------------------------------------------------
(* The day page: src/app/components/day-detail/day-detail.component.ts.     *)
(* The page of day DetailDate is opened: ngOnInit starts loadTasks, and     *)
(* once the list is shown the user clicks tasks of it, a second click       *)
(* possibly before the first has been dealt with, and drags pending tasks   *)
(* to another place.  Each click runs toggleTask, taken await by await: the *)
(* optimistic update, the read and the put of completeTask or resetTask     *)
(* (either may fail), and the awaits of loadTasks.  The database is open,   *)
(* and every call in flight awaits one operation, a transaction of its own  *)
(* on one object store.  IndexedDB orders two transactions on the same      *)
(* store when one of them writes: a put runs after the operations on its    *)
(* store issued before it, and a read after the puts on its store issued    *)
(* before it.  Operations on different stores, and reads of the same store, *)
(* resolve in either order: a read of 'tasks' does not wait for a put on    *)
(* 'taskInstances' issued before it.  The clock may move on at a click.     *)

\* t1: a daily streak task; t2: a daily task without streaks.
DetailTable ==
    { NewTask("t1", "cherry", TRUE, "", Rule("daily", {}, 0, NoDate)),
      NewTask("t2", "Banana", FALSE, "", Rule("daily", {}, 0, NoDate)) }

\* DayDetailComponent.date, the route parameter.
DetailDate == 5

\* The records of a task completed on each of the n days before the page's date.
CompletedBefore(taskId, n) ==
    {completeInstance(Undefined, taskId, date, NoValue, 0) :
        date \in (DetailDate - n)..(DetailDate - 1)}

\* A frame with the callers it waits behind.
Behind(f, after) ==
    [x \in DOMAIN f \cup {"after"} |-> IF x = "after" THEN after ELSE f[x]]

\* The callers with a call in flight, each awaiting one operation on a store.
InFlight == {k \in DOMAIN calls : calls[k].pc # "idle"}

\* The object store of the operation a call awaits at pc: getActiveTasks and getById
\* read 'tasks' (part_000), the others read or write 'taskInstances'.
StoreOf(pc) ==
    IF pc \in {"resolveTasksForDate.getActiveTasks", "calculateStreak.getById"}
    THEN "tasks" ELSE "taskInstances"

\* The callers whose operation the one issued at pc by caller c runs after: those in
\* flight on the same store, one of the two operations being a put.
Ahead(c, pc) ==
    {k \in InFlight \ {c} :
        StoreOf(calls[k].pc) = StoreOf(pc) /\ "upsert" \in {pc, calls[k].pc}}

\* loadTasks, lines 85-86: resolveTasksForDate is called for the page's date at the
\* location of the settings in memory, and awaits getActiveTasks.
loadTasksFrame ==
    CallResolveTasksForDate("loadTasks", DetailDate, settingsSignal.currentLocation)

\* loadTasks as caller c starts it, behind the operations its first read runs after.
loadTasksBehind(c) ==
    Behind(loadTasksFrame, Ahead(c, "resolveTasksForDate.getActiveTasks"))

\* ngOnInit, lines 70-82: the page is opened, on a store in which "t1" was completed on
\* none or on some of the days before; the list is empty and loadTasks is in flight.
InitDetail ==
    /\ zone = UTC
    /\ tasks = DetailTable
    /\ store \in {CompletedBefore("t1", n) : n \in 0..DetailDate}
    /\ dailyRecords = {}
    /\ financeEntries = {}
    /\ settings = {DEFAULT_SETTINGS}
    /\ settingsSignal = DEFAULT_SETTINGS
    /\ calls = [c \in {1, 2} |->
                   IF c = 1
                   THEN Behind(CallResolveTasksForDate("loadTasks", DetailDate,
                                   DEFAULT_SETTINGS.currentLocation), {})
                   ELSE IdleFrame]
    /\ now = 0
    /\ nCalls = 0
    /\ hist = <<>>
    /\ displayed = <<>>

PageFrame ==
    UNCHANGED <<tasks, dailyRecords, financeEntries, settings, settingsSignal, zone>>

DetailFrame == PageFrame /\ UNCHANGED now

\* Time passes between the clicks: the clock read by completeTask moves on.
ClickFrame == PageFrame /\ now' \in {now, now + 1}

\* toggleTask, lines 112-131: the optimistic update of one displayed view.
optimisticView(t, taskView, newStatus) ==
    IF t.taskId = taskView.taskId
    THEN LET newStreak == IF t.task.streakEnabled
                          THEN IF newStatus = "completed"
                               THEN (IF t.currentStreak = NoStreak THEN 0
                                     ELSE t.currentStreak) + 1
                               ELSE Max(0, (IF t.currentStreak = NoStreak THEN 0
                                            ELSE t.currentStreak) - 1)
                          ELSE t.currentStreak
         IN  [t EXCEPT !.status = newStatus, !.currentStreak = newStreak]
    ELSE t

\* A toggleTask at its first await: completeTask or resetTask is called, which awaits
\* the read of the existing instance (instance-resolution.service.ts, lines 140 and
\* 182).
ToggleFrame(c, taskView) ==
    [pc |-> "getByTaskAndDate",
     op |-> IF taskView.status = "completed" THEN "resetTask" ELSE "completeTask",
     taskId |-> taskView.task.id, date |-> DetailDate, value |-> NoValue,
     at |-> NoTime, existing |-> Undefined, instance |-> Undefined,
     after |-> Ahead(c, "getByTaskAndDate")]

\* A click on the i-th displayed task: toggleTask, lines 107-138, up to its first
\* await.  The list is updated, and completeTask or resetTask is called.
ToggleTask(c, i) ==
    /\ nCalls < MaxToggles
    /\ calls[c].pc = "idle"
    /\ \A k \in DOMAIN calls : k < c => calls[k].pc # "idle"
    /\ i \in DOMAIN displayed
    /\ LET taskView == displayed[i]
           newStatus == IF taskView.status = "completed" THEN "pending" ELSE "completed"
       IN  /\ displayed' = [j \in DOMAIN displayed |->
                                optimisticView(displayed[j], taskView, newStatus)]
           /\ calls' = [calls EXCEPT ![c] = ToggleFrame(c, taskView)]
    /\ nCalls' = nCalls + 1
    /\ UNCHANGED <<store, hist>>
    /\ ClickFrame

\* The read of the existing instance has resolved.  completeTask reads the clock,
\* builds the instance to store and awaits its put; so does resetTask when a record
\* exists, and otherwise it returns and loadTasks (line 142) starts.
ToggleRead(c) ==
    /\ calls[c].pc = "getByTaskAndDate"
    /\ calls[c].after = {}
    /\ LET f == calls[c]
           existingInstance == getByTaskAndDate(store, f.taskId, f.date)
       IN  Ran(c, IF f.op = "completeTask"
                  THEN [f EXCEPT !.pc = "upsert",
                                 !.at = now,
                                 !.existing = existingInstance,
                                 !.instance = completeInstance(existingInstance, f.taskId,
                                                               f.date, NoValue, now),
                                 !.after = Ahead(c, "upsert")]
                  ELSE IF existingInstance # Undefined
                  THEN [f EXCEPT !.pc = "upsert",
                                 !.existing = existingInstance,
                                 !.instance = resetInstance(existingInstance),
                                 !.after = Ahead(c, "upsert")]
                  ELSE loadTasksBehind(c))
    /\ UNCHANGED <<store, displayed, hist, nCalls>>
    /\ DetailFrame

\* The read fails: the catch block (lines 144-148) starts loadTasks.
ToggleReadFails(c) ==
    /\ calls[c].pc = "getByTaskAndDate"
    /\ calls[c].after = {}
    /\ Ran(c, loadTasksBehind(c))
    /\ UNCHANGED <<store, displayed, hist, nCalls>>
    /\ DetailFrame

\* The put of the mutation succeeds, the mutation returns and loadTasks (line 142)
\* starts.
ToggleUpsert(c) ==
    /\ calls[c].pc = "upsert"
    /\ calls[c].after = {}
    /\ store' = put(store, calls[c].instance)
    /\ Ran(c, loadTasksBehind(c))
    /\ UNCHANGED <<displayed, hist, nCalls>>
    /\ DetailFrame

\* The put fails: the catch block (lines 144-148) starts loadTasks.
ToggleUpsertFails(c) ==
    /\ calls[c].pc = "upsert"
    /\ calls[c].after = {}
    /\ Ran(c, loadTasksBehind(c))
    /\ UNCHANGED <<store, displayed, hist, nCalls>>
    /\ DetailFrame

\* The loads that have finished.
Loads == IF hist = <<>> THEN 0 ELSE hist[1].loads

\* The read loadTasks awaits at pc inside resolveTasksForDate resolves, and the call
\* runs up to its next await, or returns: the list it returns replaces the list
\* displayed (line 87).
LoadAwait(c, pc) ==
    /\ calls[c].pc = pc
    /\ calls[c].op = "loadTasks"
    /\ calls[c].after = {}
    /\ \E g \in {Step(calls[c], tasks, store, dailyRecords, financeEntries)} :
          IF g.pc # "return"
          THEN /\ Ran(c, Behind(g, Ahead(c, g.pc)))
               /\ UNCHANGED <<displayed, hist>>
          ELSE /\ Ran(c, IdleFrame)
               /\ displayed' \in Results(g)
               /\ hist' = <<[op |-> "loadTasks", date |-> g.date, loads |-> Loads + 1]>>
    /\ UNCHANGED <<store, nCalls>>
    /\ DetailFrame

\* resolveTasksForDate, line 33.
LoadGetActiveTasks(c) == LoadAwait(c, "resolveTasksForDate.getActiveTasks")
\* resolveTasksForDate, line 47.
LoadGetByDate(c) == LoadAwait(c, "resolveTasksForDate.getByDate")
\* calculateStreak, line 27, called by resolveTasksForDate (line 67).
LoadStreakGetById(c) == LoadAwait(c, "calculateStreak.getById")
\* calculateStreak, line 45.
LoadStreakGetByTaskAndDate(c) == LoadAwait(c, "calculateStreak.getByTaskAndDate")

\* (a.task.priority || 0) of the comparator of pendingTasks, for a priority that is
\* absent or a number (no task of the page carries a label).
PriorityNumber(priority) == IF priority.kind = "number" THEN priority.num ELSE 0

RECURSIVE InsertByPriority(_, _)
\* x put behind the last element of the sorted sequence it does not come before.
InsertByPriority(sorted, x) ==
    IF sorted = <<>> THEN <<x>>
    ELSE IF PriorityNumber(x.task.priority)
                < PriorityNumber(sorted[Len(sorted)].task.priority)
         THEN Append(InsertByPriority(SubSeq(sorted, 1, Len(sorted) - 1), x),
                     sorted[Len(sorted)])
         ELSE Append(sorted, x)

\* pendingTasks, line 34: the views that are not completed, sorted by priority.
pendingTasks(views) ==
    LET pending == SelectSeq(views, LAMBDA t : t.status # "completed")
        F[i \in 0..Len(pending)] ==
            IF i = 0 THEN <<>> ELSE InsertByPriority(F[i - 1], pending[i])
    IN  F[Len(pending)]

\* moveItemInArray of the CDK, with places counted from 1: the element at place `from`
\* is taken out and put in at place `to`.
moveItemInArray(list, from, to) ==
    LET rest == [j \in 1..(Len(list) - 1) |-> IF j < from THEN list[j] ELSE list[j + 1]]
    IN  [j \in 1..Len(list) |->
            IF j < to THEN rest[j] ELSE IF j = to THEN list[from] ELSE rest[j - 1]]

\* drop, lines 151-176: a pending task is dragged to another place.  The tasks of the
\* pending list get their places as priorities in the list displayed; the call of
\* taskRepo.updatePriorities that follows throws (TaskRepository has no such method),
\* and nothing is stored.
Drop(previousIndex, currentIndex) ==
    /\ previousIndex # currentIndex
    /\ previousIndex \in DOMAIN pendingTasks(displayed)
    /\ currentIndex \in DOMAIN pendingTasks(displayed)
    /\ LET list == moveItemInArray(pendingTasks(displayed), previousIndex, currentIndex)
       IN  displayed' =
             [j \in DOMAIN displayed |->
                IF \E index \in DOMAIN list : list[index].task.id = displayed[j].task.id
                THEN LET index == CHOOSE n \in DOMAIN list :
                                     list[n].task.id = displayed[j].task.id
                     IN  [displayed[j] EXCEPT !.task.priority = Num(index)]
                ELSE displayed[j]]
    /\ hist' = <<[op |-> "drop", date |-> DetailDate, loads |-> Loads]>>
    /\ UNCHANGED <<store, calls, nCalls>>
    /\ DetailFrame

NextDetail ==
    \/ \E c \in DOMAIN calls, i \in 1..Cardinality(DetailTable) : ToggleTask(c, i)
    \/ \E c \in DOMAIN calls : ToggleRead(c)
    \/ \E c \in DOMAIN calls : ToggleReadFails(c)
    \/ \E c \in DOMAIN calls : ToggleUpsert(c)
    \/ \E c \in DOMAIN calls : ToggleUpsertFails(c)
    \/ \E c \in DOMAIN calls : LoadGetActiveTasks(c)
    \/ \E c \in DOMAIN calls : LoadGetByDate(c)
    \/ \E c \in DOMAIN calls : LoadStreakGetById(c)
    \/ \E c \in DOMAIN calls : LoadStreakGetByTaskAndDate(c)
    \/ \E previousIndex, currentIndex \in 1..Cardinality(DetailTable) :
            Drop(previousIndex, currentIndex)

SpecDetail == InitDetail /\ [][NextDetail]_vars

-----------------------------------------------------------------------------
(* The day page as the component of src/unnamed/part_002 has it: toggleTask *)
(* (lines 41-48) awaits completeTask or resetTask and then loadTasks.  It   *)
(* changes nothing in the list at the click, so that a second click before  *)
(* the list is loaded anew toggles the status still shown, and it catches   *)
(* nothing: when the read or the put of the mutation fails the call is      *)
(* rejected and loadTasks is not started.  ngOnInit (lines 26-33) and       *)
(* loadTasks (lines 35-39) are those of the page above, and the component   *)
(* has no drop.                                                             *)

\* A click on the i-th displayed task: toggleTask, lines 41-46, up to its first await.
toggleTask(c, i) ==
    /\ nCalls < MaxToggles
    /\ calls[c].pc = "idle"
    /\ \A k \in DOMAIN calls : k < c => calls[k].pc # "idle"
    /\ i \in DOMAIN displayed
    /\ calls' = [calls EXCEPT ![c] = ToggleFrame(c, displayed[i])]
    /\ nCalls' = nCalls + 1
    /\ UNCHANGED <<store, displayed, hist>>
    /\ ClickFrame

\* The read or the put of the mutation fails: toggleTask is rejected at line 43 or 45,
\* and line 47 is not reached.
toggleTaskRejects(c) ==
    /\ calls[c].pc \in {"getByTaskAndDate", "upsert"}
    /\ calls[c].after = {}
    /\ Ran(c, IdleFrame)
    /\ hist' = <<[op |-> "toggleTask", date |-> DetailDate, loads |-> Loads]>>
    /\ UNCHANGED <<store, displayed, nCalls>>
    /\ DetailFrame

NextDayDetail ==
    \/ \E c \in DOMAIN calls, i \in 1..Cardinality(DetailTable) : toggleTask(c, i)
    \/ \E c \in DOMAIN calls : ToggleRead(c)
    \/ \E c \in DOMAIN calls : ToggleUpsert(c)
    \/ \E c \in DOMAIN calls : toggleTaskRejects(c)
    \/ \E c \in DOMAIN calls : LoadGetActiveTasks(c)
    \/ \E c \in DOMAIN calls : LoadGetByDate(c)
    \/ \E c \in DOMAIN calls : LoadStreakGetById(c)
    \/ \E c \in DOMAIN calls : LoadStreakGetByTaskAndDate(c)

SpecDayDetail == InitDetail /\ [][NextDayDetail]_vars
-----------------------------------------------------------------------------
(* Claims *)

\* The records the store holds for a (task, date) pair.
RecordsOf(st, taskId, date) == {r \in st : r.taskId = taskId /\ r.date = date}

SamePair(h1, h2) == h1.taskId = h2.taskId /\ h1.date = h2.date

\* C1: from an empty store, whatever completeTask, skipTask and resetTask calls
\* ran and however they interleaved at their await points, the store holds at
\* most one record per (taskId, date) pair, and its id is "<taskId>_<date>".
C1_OneRecordPerPair ==
    \A r1 \in store :
        /\ r1.id = <<r1.taskId, r1.date>>
        /\ \A r2 \in store : r1.taskId = r2.taskId /\ r1.date = r2.date => r1 = r2

\* Two calls on one pair overlapped: each read the store before either wrote, so
\* each built a new record; both have written and one record is stored.
C1_Witness ==
    /\ Len(hist) = 2
    /\ SamePair(hist[1], hist[2])
    /\ hist[1].existing = Undefined /\ hist[2].existing = Undefined
    /\ hist[1].result # Undefined /\ hist[2].result # Undefined
    /\ hist[1].op # hist[2].op
    /\ Cardinality(RecordsOf(store, hist[1].taskId, hist[1].date)) = 1

\* C2 (as stated): completeTask called twice in a row on one pair, whatever the pair's
\* state before, leaves exactly one record for the pair, completed; the second call
\* changes nothing but the completion timestamp.
C2_CompleteTwice ==
    (/\ Len(hist) = 2
     /\ hist[1].op = "completeTask" /\ hist[2].op = "completeTask"
     /\ SamePair(hist[1], hist[2]))
    => /\ RecordsOf(store, hist[2].taskId, hist[2].date) = {hist[2].result}
       /\ hist[2].result.status = "completed"
       /\ hist[2].result = [hist[1].result EXCEPT !.completedAt = hist[2].at]

\* C2 (amended): completeTask called twice in a row on one pair, whatever the pair's
\* state before, leaves exactly one record for the pair, completed; the second call
\* changes nothing but the completion timestamp, which it refreshes, and the value,
\* which it replaces when it is passed one.
C2_CompleteTwiceValue ==
    (/\ Len(hist) = 2
     /\ hist[1].op = "completeTask" /\ hist[2].op = "completeTask"
     /\ SamePair(hist[1], hist[2]))
    => /\ RecordsOf(store, hist[2].taskId, hist[2].date) = {hist[2].result}
       /\ hist[2].result.status = "completed"
       /\ hist[2].result
            = [hist[1].result EXCEPT
                 !.completedAt = hist[2].at,
                 !.value = IF hist[2].value # NoValue THEN hist[2].value ELSE @]

\* The pair was pending, after a reset, before completeTask ran twice on it, the
\* second time with another value.
C2_Witness ==
    /\ Len(hist) = 2
    /\ hist[1].op = "completeTask" /\ hist[2].op = "completeTask"
    /\ SamePair(hist[1], hist[2])
    /\ hist[1].existing.status = "pending"
    /\ hist[2].existing = hist[1].result
    /\ hist[1].result.value = "v1" /\ hist[2].value = "v2"
    /\ hist[2].result \in store

\* C3: resetTask run after completeTask on the same pair leaves the pair's record
\* in the store, pending, with no value and no completion timestamp.
C3_ResetAfterComplete ==
    (/\ Len(hist) = 2
     /\ hist[1].op = "completeTask" /\ hist[2].op = "resetTask"
     /\ SamePair(hist[1], hist[2]))
    => RecordsOf(store, hist[2].taskId, hist[2].date) =
         {[id |-> <<hist[2].taskId, hist[2].date>>, taskId |-> hist[2].taskId,
           date |-> hist[2].date, status |-> "pending", value |-> NoValue,
           completedAt |-> NoTime]}

\* completeTask stored a value and a timestamp, then resetTask ran.
C3_Witness ==
    /\ Len(hist) = 2
    /\ hist[1].op = "completeTask" /\ hist[2].op = "resetTask"
    /\ SamePair(hist[1], hist[2])
    /\ hist[1].result.value = "v1" /\ hist[1].result.completedAt # NoTime
    /\ hist[2].existing = hist[1].result
    /\ RecordsOf(store, hist[2].taskId, hist[2].date) # {}

\* C4: after skipTask the pair's record is skipped and carries neither a completion
\* timestamp nor a value, also when it was completed with a value before.
C4_SkipClears ==
    (Len(hist) >= 1 /\ hist[Len(hist)].op = "skipTask")
    => LET h == hist[Len(hist)]
           r == getByTaskAndDate(store, h.taskId, h.date)
       IN  r.status = "skipped" /\ r.completedAt = NoTime /\ r.value = NoValue

\* The last answer of the log, when the log's last entry is an answer to `op`.
Asked(op) == Len(hist) >= 1 /\ hist[Len(hist)].op = op
LastAnswer == hist[Len(hist)]

CompletedOn(st, taskId, date) ==
    \E r \in st : r.taskId = taskId /\ r.date = date /\ r.status = "completed"

\* The occurrence dates of a task from its start date through upToDate.
OccurrencesThrough(task, upToDate) ==
    {d \in task.recurrence.startDate..upToDate : doesTaskOccurOnDate(task, d)}

\* C5: for an existing streak-enabled task currentStreak(taskId, upToDate) is the number
\* of occurrence dates d between the start date and upToDate such that every occurrence
\* date from d through upToDate has a completed record (days without an occurrence
\* neither count nor stop the run; the first uncompleted occurrence date stops it); for
\* a missing or streak-disabled task it is 0.
C5_CurrentStreak ==
    Asked("calculateStreak")
    => LET h == LastAnswer
           task == getById(tasks, h.taskId)
           occ == OccurrencesThrough(task, h.date)
       IN  IF task = NoTask \/ ~task.streakEnabled THEN h.result = 0
           ELSE h.result = Cardinality({d \in occ : \A e \in occ :
                                           e >= d => CompletedOn(store, h.taskId, e)})

\* C6: streakStats returns a completionRate within [0, 100], exactly 0 when
\* totalOccurrences is 0, and totalOccurrences is the number of occurrence dates from
\* the task's start date through upToDate, whatever records the mutations have left.
C6_CompletionRate ==
    Asked("getStreakStats")
    => LET h == LastAnswer
           task == getById(tasks, h.taskId)
           rate == h.result.completionRate
       IN  /\ 0 <= rate[1] /\ rate[1] <= 100 * rate[2]
           /\ h.result.totalOccurrences = 0 => rate[1] = 0
           /\ h.result.totalOccurrences
                = IF task = NoTask THEN 0
                  ELSE Cardinality(OccurrencesThrough(task, h.date))

\* C7: isStreakBroken(taskId, date) is false on every date the task does not occur on
\* and for a missing or streak-disabled task; otherwise it is true exactly when no
\* completed record exists for (taskId, date).
C7_StreakBroken ==
    Asked("isStreakBroken")
    => LET h == LastAnswer
           task == getById(tasks, h.taskId)
       IN  h.result = ( /\ task # NoTask
                        /\ task.streakEnabled
                        /\ doesTaskOccurOnDate(task, h.date)
                        /\ ~CompletedOn(store, h.taskId, h.date) )

\* A streak task asked about a date after its start on which it does not occur and for
\* which only a skipped record exists.
C7_Witness ==
    /\ Asked("isStreakBroken")
    /\ LastAnswer.result = FALSE
    /\ LET task == getById(tasks, LastAnswer.taskId)
       IN  /\ task # NoTask /\ task.streakEnabled
           /\ LastAnswer.date >= task.recurrence.startDate
           /\ ~doesTaskOccurOnDate(task, LastAnswer.date)
           /\ \E r \in store : r.taskId = LastAnswer.taskId /\ r.date = LastAnswer.date
                               /\ r.status = "skipped"

\* The weekday (0 = Sunday) of a day counted from Monday 2024-01-01.
Weekday(date) == (date + 1) % 7

\* The day of the month of a day of January 2024.
DayOfJanuary(date) == date + 1

\* The calendar dates of January 2024 a task's rule names, in no zone.
OccursOn(task, date) ==
    LET rule == task.recurrence
    IN  /\ rule.startDate <= date
        /\ (rule.endDate # NoDate => date <= rule.endDate)
        /\ CASE rule.type = "once" -> date = rule.startDate
             [] rule.type = "daily" -> TRUE
             [] rule.type = "weekly" -> Weekday(date) \in rule.daysOfWeek
             [] rule.type = "monthly" -> DayOfJanuary(date) = rule.dayOfMonth
             [] rule.type = "custom" ->
                    /\ (rule.daysOfWeek # {} => Weekday(date) \in rule.daysOfWeek)
                    /\ (rule.dayOfMonth # 0 => DayOfJanuary(date) = rule.dayOfMonth)
             [] OTHER -> FALSE

\* The completed dates of a task that are occurrence dates of it.
CompletedOccurrences(task, st) ==
    {r.date : r \in {q \in st : q.taskId = task.id /\ q.status = "completed"
                                /\ OccursOn(task, q.date)}}

\* A run: between a date of S and the date that follows it in S the task does not
\* occur, so that each date of S but the first is the next occurrence after the one
\* before it.
IsRun(task, S) ==
    \A d, e \in S :
        (d < e /\ \A x \in S : ~(d < x /\ x < e))
            => \A x \in (d + 1)..(e - 1) : ~OccursOn(task, x)

\* The maximum length of a run of completed occurrence dates (0 without completions).
LongestRun(task, st) ==
    LET runs == {S \in SUBSET CompletedOccurrences(task, st) : IsRun(task, S)}
    IN  CHOOSE n \in 0..Cardinality(CompletedOccurrences(task, st)) :
            /\ \E S \in runs : Cardinality(S) = n
            /\ \A S \in runs : Cardinality(S) <= n

\* C8: for a streak-enabled task longestStreak(taskId) is the maximum length of a run of
\* completed dates in which each is the next occurrence after the previous one,
\* completions on dates without an occurrence being ignored; 0 without completions.
C8_LongestStreak ==
    Asked("getLongestStreak")
    => LET task == getById(tasks, LastAnswer.taskId)
       IN  (task # NoTask /\ task.streakEnabled)
              => LastAnswer.result = LongestRun(task, store)

\* What does hold: at UTC and east of it the longest streak of a streak-enabled task is
\* that maximum, and in every zone that of a missing or streak-disabled task is 0.
C8_LongestStreakEastOfUTC ==
    Asked("getLongestStreak")
    => LET task == getById(tasks, LastAnswer.taskId)
       IN  IF task = NoTask \/ ~task.streakEnabled THEN LastAnswer.result = 0
           ELSE zone.standard >= 0 => LastAnswer.result = LongestRun(task, store)

\* At UTC and east of it: a run broken by a missed occurrence, the longest streak being
\* shorter than the number of completed occurrences.
C8_RunBroken ==
    /\ Asked("getLongestStreak")
    /\ zone.standard >= 0
    /\ LET task == getById(tasks, LastAnswer.taskId)
       IN  /\ task # NoTask /\ task.streakEnabled
           /\ LastAnswer.result = 1
           /\ Cardinality(CompletedOccurrences(task, store)) = 2

\* Whether resolveForDate(date, location) is to show the task.
Shown(task, date, location) ==
    ~task.isArchived /\ doesTaskOccurOnDate(task, date) /\ isLocationAllowed(task, location)

\* C9: resolveForDate(date, location) returns exactly one view for each task that is
\* non-archived, occurs on date and is allowed at location, and no other view; a view
\* has the status of the stored record for (task, date) if there is one and pending
\* otherwise, and has a currentStreak (the task's current streak at date) only when the
\* task has streaks enabled.
C9_ResolveForDate ==
    Asked("resolveTasksForDate")
    => LET h == LastAnswer
           views == h.result
       IN  /\ \A task \in tasks :
                Cardinality({i \in DOMAIN views : views[i].taskId = task.id})
                    = IF Shown(task, h.date, h.location) THEN 1 ELSE 0
           /\ \A i \in DOMAIN views :
                /\ views[i].task \in tasks
                /\ views[i].task.id = views[i].taskId
                /\ views[i].date = h.date
                /\ views[i].status
                     = IF RecordsOf(store, views[i].taskId, h.date) # {}
                       THEN (CHOOSE r \in RecordsOf(store, views[i].taskId, h.date) :
                                TRUE).status
                       ELSE "pending"
                /\ views[i].currentStreak
                     = IF views[i].task.streakEnabled
                       THEN calculateStreak(tasks, store, views[i].taskId, h.date)
                       ELSE NoStreak

\* Two of three tasks shown: one with a completed record and a streak, one without a
\* record and without streaks, beside a record of another date.
C9_Witness ==
    /\ Asked("resolveTasksForDate")
    /\ Cardinality(tasks) = 3
    /\ Len(LastAnswer.result) = 2
    /\ \E i \in DOMAIN LastAnswer.result :
            /\ LastAnswer.result[i].status = "completed"
            /\ LastAnswer.result[i].currentStreak >= 1
    /\ \E i \in DOMAIN LastAnswer.result :
            /\ LastAnswer.result[i].status = "pending"
            /\ LastAnswer.result[i].currentStreak = NoStreak
    /\ \E r \in store : r.date # LastAnswer.date

\* C10: the sequence resolveForDate returns is sorted by priority (for numeric
\* priorities, the lower number first), and two views whose tasks have the same
\* priority are in ascending title order, whatever the priorities and titles.
C10_Sorted ==
    Asked("resolveTasksForDate")
    => LET views == LastAnswer.result
       IN  \A i, j \in DOMAIN views :
             i < j =>
               LET a == views[i].task
                   b == views[j].task
               IN  /\ (a.priority.kind = "number" /\ b.priority.kind = "number")
                        => a.priority.num <= b.priority.num
                   /\ a.priority = b.priority => localeCompare(a.title, b.title) <= 0

\* The views resolveForDate(date, location) has for a task, whatever order it returns.
ViewsOf(ts, st, taskId, date, location) ==
    {v \in UNION {Range(views) : views \in resolveTasksForDate(ts, st, date, location)} :
        v.taskId = taskId}

\* C11: resolveSingle(taskId, date, location) returns none exactly when the task is
\* missing, archived, does not occur on date or is disallowed at location; otherwise it
\* returns the view (record id, status, value, currentStreak) that resolveForDate(date,
\* location) holds for the task on the same store.
C11_ResolveSingle ==
    Asked("resolveTaskForDate")
    => LET h == LastAnswer
           task == getById(tasks, h.taskId)
           listed == ViewsOf(tasks, store, h.taskId, h.date, h.location)
       IN  /\ h.result = NoView
                <=> (task = NoTask \/ ~Shown(task, h.date, h.location))
           /\ h.result # NoView
                => /\ Cardinality(listed) = 1
                   /\ \A v \in listed :
                        /\ v.id = h.result.id
                        /\ v.status = h.result.status
                        /\ v.value = h.result.value
                        /\ v.currentStreak = h.result.currentStreak

\* A view of a completed record with a streak, returned for a task of a table in which
\* another task is archived.
C11_Witness ==
    /\ Asked("resolveTaskForDate")
    /\ LastAnswer.result # NoView
    /\ LastAnswer.result.status = "completed"
    /\ LastAnswer.result.currentStreak >= 1
    /\ \E t \in tasks : t.isArchived

\* C12: isAllowed(task, loc) is true for a task without a location condition; false
\* when the non-empty deny-list holds loc, whatever the allow-list; otherwise, with a
\* non-empty allow-list, true exactly when the allow-list holds loc; otherwise true.
\* allowedLocations(task) is the set of the locations isAllowed(task, loc) is true for.
C12_LocationFilter ==
    /\ Asked("isLocationAllowed")
         => LET c == LastAnswer.task.locationCondition
                loc == LastAnswer.location
            IN  LastAnswer.result
                  = ( \/ ~c.present
                      \/ /\ loc \notin c.excludedLocations
                         /\ (c.allowedLocations = {} \/ loc \in c.allowedLocations) )
    /\ Asked("getAllowedLocations")
         => LastAnswer.result
              = {loc \in allLocations : isLocationAllowed(LastAnswer.task, loc)}

\* The office denied to a task whose allow-list and deny-list both hold it.
C12_Witness ==
    /\ Asked("isLocationAllowed")
    /\ LastAnswer.result = FALSE
    /\ LastAnswer.location = "office"
    /\ "office" \in LastAnswer.task.locationCondition.allowedLocations
    /\ "office" \in LastAnswer.task.locationCondition.excludedLocations

\* C13: for a weekly task with weekday set S, occursOn(task, date) is true exactly when
\* startDate <= date, date <= endDate if an end date is set, and the weekday of date is
\* in S; with S empty or absent it is false for every date, and a monthly task without a
\* day of the month never occurs.
C13_WeeklyOccurs ==
    Asked("doesTaskOccurOnDate")
    => LET rule == LastAnswer.task.recurrence
           date == LastAnswer.date
       IN  /\ rule.type = "weekly"
                => LastAnswer.result
                     = ( /\ rule.startDate <= date
                         /\ (rule.endDate # NoDate => date <= rule.endDate)
                         /\ Weekday(date) \in rule.daysOfWeek )
           /\ (rule.type = "weekly" /\ rule.daysOfWeek = {}) => LastAnswer.result = FALSE
           /\ (rule.type = "monthly" /\ rule.dayOfMonth = 0) => LastAnswer.result = FALSE

\* The tasks scheduled on a date at a location.
Scheduled(date, location) == {t \in tasks : Shown(t, date, location)}

\* C14: buildRange(startDate, endDate, location) returns exactly one summary per calendar
\* day of [startDate, endDate], in ascending date order; in each, tasksTotal is the
\* number of non-archived tasks occurring on the day and allowed at location, and
\* tasksCompleted the number of those with a completed record for the day, so that
\* 0 <= tasksCompleted <= tasksTotal.
C14_BuildRange ==
    Asked("buildCalendarViewForRange")
    => LET h == LastAnswer
           views == h.result
       IN  /\ Len(views) = Cardinality(h.startDate..h.endDate)
           /\ \A i \in DOMAIN views :
                /\ views[i].date = h.startDate + i - 1
                /\ views[i].tasksTotal
                     = Cardinality(Scheduled(views[i].date, h.location))
                /\ views[i].tasksCompleted
                     = Cardinality({t \in Scheduled(views[i].date, h.location) :
                                       CompletedOn(store, t.id, views[i].date)})
                /\ 0 <= views[i].tasksCompleted
                /\ views[i].tasksCompleted <= views[i].tasksTotal

\* The glyphs by their place in the indicator list.
GlyphClass ==
    <<{"all-done", "partial", "none-done"}, {"note"}, {"finance"}, {"warning"}>>

\* The subsequence of a sequence made of the elements in a set.
Only(seq, S) == SelectSeq(seq, LAMBDA x : x \in S)

\* C15: in every day summary the indicator list holds a completion glyph exactly when
\* tasksTotal > 0 (all-done when tasksCompleted = tasksTotal, partial when
\* 0 < tasksCompleted < tasksTotal, none-done when tasksCompleted = 0), a note glyph
\* exactly when a daily record exists for the day, a finance glyph exactly when a finance
\* entry exists for the day and a warning glyph exactly when streakBroken, in that order.
C15_Indicators ==
    Asked("buildCalendarViewForRange")
    => \A i \in DOMAIN LastAnswer.result :
         LET v == LastAnswer.result[i]
             icons == v.icons
         IN  /\ Only(icons, {"all-done", "partial", "none-done"})
                  = IF v.tasksTotal = 0 THEN <<>>
                    ELSE IF v.tasksCompleted = v.tasksTotal THEN <<"all-done">>
                    ELSE IF v.tasksCompleted = 0 THEN <<"none-done">>
                    ELSE <<"partial">>
             /\ Only(icons, {"note"})
                  = IF \E r \in dailyRecords : r.date = v.date THEN <<"note">> ELSE <<>>
             /\ Only(icons, {"finance"})
                  = IF \E x \in financeEntries : x.date = v.date
                    THEN <<"finance">> ELSE <<>>
             /\ Only(icons, {"warning"}) = IF v.streakBroken THEN <<"warning">> ELSE <<>>
             /\ \A j, k \in DOMAIN icons :
                    j < k => \E a, b \in 1..4 :
                               /\ a < b
                               /\ icons[j] \in GlyphClass[a]
                               /\ icons[k] \in GlyphClass[b]

\* A range whose first day shows all-done and note and whose second day shows partial,
\* finance and warning.
C15_Witness ==
    /\ Asked("buildCalendarViewForRange")
    /\ Len(LastAnswer.result) = 2
    /\ LastAnswer.result[1].icons = <<"all-done", "note">>
    /\ LastAnswer.result[2].icons = <<"partial", "finance", "warning">>

\* The state of a (task, date) pair: the status of its record, or no-record.
StatusOf(st, taskId, date) ==
    IF RecordsOf(st, taskId, date) = {} THEN "no-record"
    ELSE (CHOOSE r \in RecordsOf(st, taskId, date) : TRUE).status

\* Caller c's call on the pair writes its record in this step.
Writes(c, taskId, date) ==
    /\ calls[c].pc = "upsert" /\ calls'[c].pc = "idle"
    /\ calls[c].taskId = taskId /\ calls[c].date = date

\* C16: the state of a (task, date) pair changes only in the step in which a
\* completeTask, skipTask or resetTask call on that pair writes; from whatever state,
\* the write of completeTask leads to completed and that of skipTask to skipped in that
\* one step, the write of resetTask leads from an existing record to pending, and a
\* stored record's status is always pending, completed or skipped.
C16_Transitions ==
    [][ \A p \in MutTaskIds \X MutDates :
          LET old == StatusOf(store, p[1], p[2])
              new == StatusOf(store', p[1], p[2])
          IN  /\ new \in {"no-record", "pending", "completed", "skipped"}
              /\ (\A c \in DOMAIN calls : ~Writes(c, p[1], p[2])) => new = old
              /\ \A c \in DOMAIN calls :
                    Writes(c, p[1], p[2])
                    => /\ calls[c].op = "completeTask" => new = "completed"
                       /\ calls[c].op = "skipTask" => new = "skipped"
                       /\ calls[c].op = "resetTask"
                            => (old # "no-record" /\ new = "pending")
      ]_vars

\* A skipTask that found the record completed and left it skipped, followed by a
\* completeTask that found it skipped.
C16_Witness ==
    /\ Len(hist) = 2
    /\ hist[1].op = "skipTask"
    /\ hist[1].existing.status = "completed"
    /\ hist[1].result.status = "skipped"
    /\ hist[2].op = "completeTask"
    /\ SamePair(hist[1], hist[2])
    /\ hist[2].existing.status = "skipped"
    /\ StatusOf(store, hist[2].taskId, hist[2].date) = "completed"

\* C17: completeTask(taskId, date) without a value on a pair whose record holds value v
\* leaves the value v (also when the record was skipped in between), and
\* completeTask(taskId, date, w) sets the value to w; either way the stored record is
\* completed and has a completion timestamp.
C17_CompleteValue ==
    (Len(hist) >= 1 /\ hist[Len(hist)].op = "completeTask")
    => LET h == hist[Len(hist)]
           r == getByTaskAndDate(store, h.taskId, h.date)
       IN  /\ r # Undefined
           /\ r.status = "completed"
           /\ r.completedAt # NoTime
           /\ r.completedAt = h.at
           /\ r.value = IF h.value # NoValue THEN h.value ELSE h.existing.value

\* A record completed with a value, skipped, and completed again without a value: the
\* log shows the skip and the second completion, which kept the value.
C17_Witness ==
    /\ Len(hist) = 2
    /\ hist[1].op = "skipTask"
    /\ hist[1].existing.status = "completed"
    /\ hist[1].existing.value = "v1"
    /\ hist[2].op = "completeTask"
    /\ SamePair(hist[1], hist[2])
    /\ hist[2].value = NoValue
    /\ getByTaskAndDate(store, hist[2].taskId, hist[2].date).value = "v1"

\* C18: no step of a resetTask call that found no record for its pair changes the record
\* store, and the step in which a completeTask, skipTask or resetTask call writes leaves
\* the records of every other (task, date) pair as they were; the other steps of the
\* calls change no record.
C18_Frame ==
    [][ \A c \in DOMAIN calls :
          calls'[c] # calls[c]
          => /\ (calls[c].op = "resetTask" /\ calls[c].existing = Undefined)
                    => store' = store
             /\ calls[c].pc # "upsert" => store' = store
             /\ calls[c].pc = "upsert"
                    => \A r \in store \cup store' :
                          (r.taskId # calls[c].taskId \/ r.date # calls[c].date)
                          => (r \in store /\ r \in store')
      ]_vars

\* A resetTask that found no record and returned, after a completeTask on another pair
\* whose record is all the store holds.
C18_Witness ==
    /\ Len(hist) = 2
    /\ hist[1].op = "completeTask"
    /\ hist[2].op = "resetTask"
    /\ ~SamePair(hist[1], hist[2])
    /\ hist[2].existing = Undefined
    /\ store = {hist[1].result}

\* Every view a resolveTasksForDate call returned has currentStreak >= 1 only with the
\* status completed.
C19_ViewsOfOneSnapshot ==
    Asked("resolveTasksForDate")
    => \A i \in DOMAIN LastAnswer.result :
          LastAnswer.result[i].status # "completed"
          => ~(LastAnswer.result[i].currentStreak >= 1)

\* Every day summary a buildCalendarViewForRange call returned with streakBroken = false
\* counts every scheduled streak-enabled task of the day: tasksCompleted is not below
\* their number.
C19_SummariesOfOneSnapshot ==
    Asked("buildCalendarViewForRange")
    => \A i \in DOMAIN LastAnswer.result :
          LET v == LastAnswer.result[i]
              streakTasks == {t \in Scheduled(v.date, LastAnswer.location) :
                                 t.streakEnabled}
          IN  ~v.streakBroken => v.tasksCompleted >= Cardinality(streakTasks)

\* C19: every result of resolveForDate and buildRange is consistent with a single
\* snapshot of the store even when completeTask, skipTask or resetTask calls run between
\* the call's await points: no returned day summary has streakBroken = false while a
\* scheduled streak-enabled task is not counted in tasksCompleted, and no returned task
\* view has a status other than completed together with currentStreak >= 1.
C19_SingleSnapshot ==
    /\ C19_ViewsOfOneSnapshot
    /\ C19_SummariesOfOneSnapshot

\* C20: when a store operation fails during completeTask, skipTask or resetTask, the
\* failure propagates to the caller (the call ends rejected), the call is not retried
\* (it has ended having issued at most one put, none after a failed read), and the
\* record store is exactly as it was before the call.
C20_StoreFailure ==
    (hist # <<>> /\ hist[1].failed # "none")
    => /\ hist[1].phase = "rejected"
       /\ calls[1] = IdleFrame
       /\ hist[1].puts = (IF hist[1].failed = "put" THEN 1 ELSE 0)
       /\ store = hist[1].before

\* A completeTask whose put failed, on a store holding a record its put would have
\* replaced.
C20_Witness ==
    /\ hist # <<>>
    /\ hist[1].op = "completeTask"
    /\ hist[1].failed = "put"
    /\ hist[1].phase = "rejected"
    /\ getByTaskAndDate(store, hist[1].taskId, hist[1].date) # Undefined
    /\ put(store, hist[1].instance) # store

\* The record of the pair after the logged call h ran alone on a store holding
\* `existing` for the pair.
SerialResult(h, existing) ==
    IF h.op = "completeTask"
    THEN completeInstance(existing, h.taskId, h.date, h.value, h.at)
    ELSE IF h.op = "skipTask" THEN skipInstance(existing, h.taskId, h.date)
    ELSE IF existing # Undefined THEN resetInstance(existing)
    ELSE Undefined

\* A record without its completion timestamp.
Untimed(r) == IF r = Undefined THEN Undefined ELSE [r EXCEPT !.completedAt = NoTime]

\* C21: when two mutation calls on the same (taskId, date) pair overlap at their await
\* points (both read the pair before either wrote), the record finally stored equals,
\* apart from the completion timestamp, the record one of the two serial orders of the
\* calls produces from what they read: no update is lost.
C21_NoLostUpdate ==
    (/\ Len(hist) = 2
     /\ \A c \in DOMAIN calls : calls[c].pc = "idle"
     /\ SamePair(hist[1], hist[2])
     /\ hist[1].existing = hist[2].existing)
    => LET base == hist[1].existing
           final == getByTaskAndDate(store, hist[1].taskId, hist[1].date)
       IN  \/ Untimed(final) = Untimed(SerialResult(hist[2], SerialResult(hist[1], base)))
           \/ Untimed(final) = Untimed(SerialResult(hist[1], SerialResult(hist[2], base)))

\* The operations that only read the stores.
QueryOps ==
    {"resolveTasksForDate", "resolveTaskForDate", "calculateStreak", "isStreakBroken",
     "getLongestStreak", "getStreakStats", "buildCalendarViewForRange",
     "buildCalendarView"}

\* The task views an answer of resolveTasksForDate or resolveTaskForDate holds.
AnsweredViews(h) ==
    IF h.op = "resolveTasksForDate" THEN Range(h.result)
    ELSE IF h.op = "resolveTaskForDate" /\ h.result # NoView THEN {h.result}
    ELSE {}

\* The step is one of a query: a call of it is made, goes on or returns.
QueryStep ==
    \/ \E c \in DOMAIN calls :
          /\ calls'[c] # calls[c]
          /\ calls[c].op \in QueryOps \/ calls'[c].op \in QueryOps
    \/ hist' # hist /\ hist' # <<>> /\ hist'[1].op \in QueryOps

\* The step is one of a completeTask, skipTask or resetTask call.
MutationCallStep ==
    \E c \in DOMAIN calls :
        /\ calls'[c] # calls[c]
        /\ calls[c].op \in MutationOps \/ calls'[c].op \in MutationOps

\* C22: every step of resolveForDate, resolveSingle, currentStreak, isStreakBroken,
\* longestStreak, streakStats, buildRange and buildForMonth, from the call to the
\* return, leaves the store unchanged; a view returned for a task without a record is a
\* pending record with the id "<taskId>_<date>" that is not in the store afterwards;
\* and a record of a pair that had none is in the store only after the write of a
\* completeTask or skipTask call on that pair.
C22_QueriesWriteNothing ==
    [][ /\ QueryStep => store' = store
        /\ (hist' # hist /\ hist' # <<>> /\ hist'[1].op \in QueryOps)
           => \A v \in AnsweredViews(hist'[1]) :
                    getByTaskAndDate(store, v.task.id, hist'[1].date) = Undefined
                    => /\ v.id = generateInstanceId(v.task.id, hist'[1].date)
                       /\ v.taskId = v.task.id
                       /\ v.date = hist'[1].date
                       /\ v.status = "pending"
                       /\ \A r \in store' : r.id # v.id
        /\ \A r \in store' :
              getByTaskAndDate(store, r.taskId, r.date) = Undefined
              => \E c \in DOMAIN calls :
                    /\ Writes(c, r.taskId, r.date)
                    /\ calls[c].op \in {"completeTask", "skipTask"}
      ]_vars

\* resolveTasksForDate has answered with the view of a stored record and the made-up
\* pending view of a task without one, and the store holds no record of that task.
C22_Witness ==
    /\ Asked("resolveTasksForDate")
    /\ \E v \in AnsweredViews(LastAnswer) :
          /\ v.status = "pending"
          /\ v.task.streakEnabled
          /\ getByTaskId(store, v.taskId) = {}
    /\ \E v \in AnsweredViews(LastAnswer) :
          getByTaskAndDate(store, v.taskId, v.date) # Undefined
    /\ store # {}

\* C23: a record that exists for a (task, date) pair exists after every step of a
\* completeTask, skipTask, resetTask, resolution or aggregation call, however the calls
\* overlap: these calls remove no record, a record is only replaced by one of the same
\* id and pair.
C23_NeverDeleted ==
    [][ (MutationCallStep \/ QueryStep)
        => \A r \in store :
             \E r2 \in store' : r2.id = r.id /\ r2.taskId = r.taskId /\ r2.date = r.date
      ]_vars

\* A record reset to pending is still stored, beside a skipped one, and the calendar of
\* the month was built after the reset.
C23_Witness ==
    /\ Asked("buildCalendarView")
    /\ \E r \in store : r.status = "pending"
    /\ \E r \in store : r.status = "skipped"

\* C24: on a store that does not change during the call, the streakBroken flag of the
\* summary for day d is true iff at least one task that is scheduled on d (non-archived,
\* occurring, allowed at location) and has streak tracking enabled has no
\* completed-status record for d.
C24_StreakBrokenFlag ==
    Asked("buildCalendarViewForRange")
    => \A i \in DOMAIN LastAnswer.result :
          LET v == LastAnswer.result[i]
          IN  v.streakBroken
                <=> \E t \in Scheduled(v.date, LastAnswer.location) :
                        t.streakEnabled /\ ~CompletedOn(store, t.id, v.date)

\* A range of two days: on the first every scheduled streak task is completed and the
\* flag is off, on the second a streak task was skipped and the flag is on.
C24_Witness ==
    /\ Asked("buildCalendarViewForRange")
    /\ Len(LastAnswer.result) = 2
    /\ ~LastAnswer.result[1].streakBroken
    /\ \E t \in Scheduled(LastAnswer.result[1].date, LastAnswer.location) : t.streakEnabled
    /\ LastAnswer.result[2].streakBroken
    /\ \E r \in store : r.date = LastAnswer.result[2].date /\ r.status = "skipped"

\* The first and the last day of a month of the civil calendar, month in 1..12.
FirstDayOfMonth(year, month) == DayFromCivil(year, month, 1)
LastDayOfMonth(year, month) ==
    IF month = 12 THEN DayFromCivil(year + 1, 1, 1) - 1
    ELSE DayFromCivil(year, month + 1, 1) - 1

\* C25: buildForMonth(year, month, location) returns the same sequence of day summaries
\* as buildRange(first day of the month, last day of the month, location) on the same
\* store.
C25_MonthIsRange ==
    Asked("buildCalendarView")
    => LET h == LastAnswer
       IN  h.result = buildCalendarViewForRange(tasks, store, dailyRecords, financeEntries,
                          FirstDayOfMonth(h.year, h.month),
                          LastDayOfMonth(h.year, h.month), h.location)

\* C26: a custom task occurs on a date within its start/end range exactly when the
\* weekday check passes (applied only when a non-empty weekday set is present) and the
\* day-of-month check passes (applied only when a day of the month is present): with
\* neither it occurs on every date in range, with both only on dates matching both.
C26_CustomOccurs ==
    (Asked("doesTaskOccurOnDate") /\ LastAnswer.task.recurrence.type = "custom")
    => LET rule == LastAnswer.task.recurrence
           date == LastAnswer.date
       IN  LastAnswer.result
             = ( /\ rule.startDate <= date
                 /\ (rule.endDate # NoDate => date <= rule.endDate)
                 /\ (rule.daysOfWeek # {} => Weekday(date) \in rule.daysOfWeek)
                 /\ (rule.dayOfMonth # 0 => DayOfJanuary(date) = rule.dayOfMonth) )

\* The occurrences of a task among the days lo..hi.
OccurrencesBetween(task, lo, hi) == {d \in lo..hi : doesTaskOccurOnDate(task, d)}

Earliest(S) == CHOOSE d \in S : \A e \in S : d <= e
Latest(S) == CHOOSE d \in S : \A e \in S : d >= e

\* C27: nextOccurrenceAfter(task, d, horizon) is the earliest date d' with
\* d < d' <= d + horizon on which the task occurs, and no date when there is none (never
\* d itself); previousOccurrenceBefore is the mirror image; and for an occurrence date d
\* whose next occurrence n is within the horizon, previousOccurrenceBefore(task, n) = d.
C27_NextAndPrevious ==
    /\ Asked("getNextOccurrence")
        => LET h == LastAnswer
               ahead == OccurrencesBetween(h.task, h.date + 1, h.date + h.horizon)
           IN  /\ h.result = (IF ahead = {} THEN NoDate ELSE Earliest(ahead))
               /\ h.result # h.date
               /\ (doesTaskOccurOnDate(h.task, h.date) /\ h.result # NoDate)
                    => getPreviousOccurrence(h.task, h.result, h.horizon) = h.date
    /\ Asked("getPreviousOccurrence")
        => LET h == LastAnswer
               back == OccurrencesBetween(h.task, h.date - h.horizon, h.date - 1)
           IN  /\ h.result = (IF back = {} THEN NoDate ELSE Latest(back))
               /\ h.result # h.date

\* C28: the settings collection is a singleton: after any sequence of update,
\* updateLocation, toggleFinance, toggleMorningAlarm and reset it holds at most one
\* record, and a fresh loadSettings yields the settings written last, the last location
\* included.
C28_SettingsSingleton ==
    /\ Cardinality(settings) <= 1
    /\ Asked("loadSettings") => LastAnswer.result = LastAnswer.written

\* What does hold: at most one record per location.
C28_OneRecordPerLocation ==
    \A r1, r2 \in settings : r1.currentLocation = r2.currentLocation => r1 = r2

\* C29: for every streak-enabled task, every store reachable through the complete,
\* skip and reset operations and every upToDate, currentStreak(taskId, upToDate) is at
\* most longestStreak(taskId); streakStats never reports a currentStreak above its
\* longestStreak.
C29_CurrentWithinLongest ==
    /\ Asked("calculateStreak")
        => LastAnswer.result <= getLongestStreak(tasks, store, LastAnswer.taskId)
    /\ Asked("getStreakStats")
        => LastAnswer.result.currentStreak <= LastAnswer.result.longestStreak

\* What does hold: the current streak is at most the number of completed occurrences.
C29_CurrentWithinCompletions ==
    Asked("getStreakStats")
    => LastAnswer.result.currentStreak <= LastAnswer.result.totalCompletions

\* C30: in the day-detail view, once every started toggleTask call has finished
\* (overlapping calls from rapid clicks and failed mutations included), the list a
\* loadTasks has displayed equals resolveForDate(date, location) on the final store: the
\* optimistic status is always replaced by the stored one, and an older loadTasks
\* result never overwrites a newer one.
C30_DisplayedIsStored ==
    ((\A c \in DOMAIN calls : calls[c].pc = "idle") /\ Asked("loadTasks"))
    => displayed \in resolveTasksForDate(tasks, store, DetailDate,
                                         settingsSignal.currentLocation)

\* What does hold with overlapping clicks: the list shown at rest is a list of the
\* same tasks in the same order as the stored one.
C30_DisplayedSameTasks ==
    (\A c \in DOMAIN calls : calls[c].pc = "idle")
    => \E stored \in resolveTasksForDate(tasks, store, DetailDate,
                                         settingsSignal.currentLocation) :
          /\ Len(displayed) = Len(stored)
          /\ \A i \in DOMAIN stored : displayed[i].taskId = stored[i].taskId

\* What does hold of clicks that do not overlap: when a click is made with no call in
\* flight and none follows before its loadTasks has finished, the list displayed is the
\* stored one.
C30_OneClickAtATime ==
    ((\A c \in DOMAIN calls : calls[c].pc = "idle") /\ Asked("loadTasks")
        /\ nCalls <= 1)
    => displayed \in resolveTasksForDate(tasks, store, DetailDate,
                                         settingsSignal.currentLocation)

=============================================================================
